---------------------------- MODULE Spec2Model ----------------------------
(***************************************************************************)
(* github2gitea: migration of a GitHub organization (members, teams,       *)
(* repositories, collaborators, roster users and SSH keys) to Gitea.       *)
(*                                                                         *)
(* The model has three layers, each translated from the source:            *)
(*   - the two platforms (GitHub source data, Gitea destination state)     *)
(*     and the SDK calls the program issues against them;                  *)
(*   - the Target Gateway (pkg/gitea) as operators over the destination    *)
(*     state;                                                              *)
(*   - the orchestrator (pkg/migrate, cmd main) as a sequential state      *)
(*     machine, one action per step or loop iteration.                     *)
(* Every remote call may fail; the failures injected in one run are        *)
(* counted against MaxFaults.  A Go pointer is a sequence: <<>> is nil,    *)
(* <<v>> points to v.  A panic ends the run in pc = "crashed".             *)
(***************************************************************************)
EXTENDS Integers, Sequences, FiniteSets, TLC

(***************************************************************************)
(* Bounds of the model.                                                    *)
(***************************************************************************)
MaxMembers == 2
MaxTeams == 2
MaxRepos == 2
MaxRoster == 2
MaxFaults == 1
MaxDeadlines == 2

Nil == <<>>
Ptr(v) == <<v>>
IsNil(p) == p = <<>>
Deref(p) == p[1]

Min(a, b) == IF a < b THEN a ELSE b

RECURSIVE Flatten(_)
Flatten(ss) == IF ss = <<>> THEN <<>> ELSE Head(ss) \o Flatten(Tail(ss))

\* the ascending enumeration of a finite set of integers
RECURSIVE Ascending(_)
Ascending(S) ==
  IF S = {} THEN <<>>
  ELSE LET m == CHOOSE x \in S : \A y \in S : x <= y
       IN <<m>> \o Ascending(S \ {m})

\* a remote call: the API, its arguments and whether it succeeded
Call(api, args, ok) == [api |-> api, args |-> args, ok |-> ok]

(***************************************************************************)
(* HTTP statuses and access levels the program names.                      *)
(***************************************************************************)
StatusOK == 200
StatusNotFound == 404
StatusUnprocessableEntity == 422
StatusInternalServerError == 500

GitHubTeamPull == "pull"
GitHubTeamPush == "push"
GitHubTeamAdmin == "admin"
GitHubTeamMaintain == "maintain"
GitHubTeamTriager == "triager"

AccessModeRead == "read"
AccessModeWrite == "write"
AccessModeAdmin == "admin"
AccessModeOwner == "owner"

VisibleTypePublic == "public"
VisibleTypePrivate == "private"

(***************************************************************************)
(* The outcome a remote Gitea read can be forced to: none (the server      *)
(* answers from its state), an error with a response of another status,    *)
(* or an error with no response at all (network, deadline).                *)
(***************************************************************************)
ReadFaults == {"none", "e500", "noresp"}
WriteFaults == {"none", "fail"}
FaultStatus(f) == StatusInternalServerError
FaultCount(fs) == Cardinality({i \in DOMAIN fs : fs[i] # "none"})

(***************************************************************************)
(* Team names are sequences of one-character strings.                      *)
(***************************************************************************)
IsInfix(q, s) ==
  \E i \in 0..(Len(s) - Len(q)) : SubSeq(s, i + 1, i + Len(q)) = q

(***************************************************************************)
(* The Gitea server: destination state and the SDK calls against it.       *)
(*   orgs    : name -> [description, visibility]                           *)
(*   users   : login -> account                                            *)
(*   teams   : sequence of teams, a team's ID is its index                 *)
(*   members : set of <<team ID, login>>                                   *)
(*   repos   : <<owner, name>> -> the accepted import request              *)
(*   collabs : <<owner, repo, user>> -> access level                       *)
(*   keys    : set of <<login, key>>                                       *)
(***************************************************************************)
EmptyFn == [x \in {} |-> x]

EmptyGitea ==
  [orgs |-> EmptyFn, users |-> EmptyFn, teams |-> <<>>, members |-> {},
   repos |-> EmptyFn, collabs |-> EmptyFn, keys |-> {}]

OrgValue(gt, name) ==
  [UserName |-> name, Description |-> gt.orgs[name].description,
   Visibility |-> gt.orgs[name].visibility]

UserValue(gt, login) ==
  [UserName |-> login, LoginName |-> gt.users[login].loginName,
   FullName |-> gt.users[login].fullName, Email |-> gt.users[login].email]

TeamValue(gt, id) ==
  [ID |-> id, Org |-> gt.teams[id].org, Name |-> gt.teams[id].name,
   Permission |-> gt.teams[id].permission]

\* client.GetOrg
SdkGetOrg(gt, name, fault) ==
  IF fault = "noresp" THEN [val |-> Nil, resp |-> Nil, err |-> TRUE]
  ELSE IF fault # "none" THEN [val |-> Nil, resp |-> Ptr(FaultStatus(fault)), err |-> TRUE]
  ELSE IF name \in DOMAIN gt.orgs
       THEN [val |-> Ptr(OrgValue(gt, name)), resp |-> Ptr(StatusOK), err |-> FALSE]
       ELSE [val |-> Nil, resp |-> Ptr(StatusNotFound), err |-> TRUE]

\* client.CreateOrg: a new organization comes with its "Owners" team
SdkCreateOrg(gt, opt, fault) ==
  IF fault # "none" \/ opt.Name \in DOMAIN gt.orgs
  THEN [gt |-> gt, val |-> Nil, err |-> TRUE]
  ELSE LET g1 == [gt EXCEPT
                   !.orgs = @ @@ (opt.Name :> [description |-> opt.Description,
                                               visibility |-> opt.Visibility]),
                   !.teams = Append(@, [org |-> opt.Name, name |-> <<"O", "w", "n", "e", "r", "s">>,
                                        permission |-> AccessModeOwner,
                                        canCreateOrgRepo |-> TRUE])]
       IN [gt |-> g1, val |-> Ptr(OrgValue(g1, opt.Name)), err |-> FALSE]

\* client.GetUserInfo
SdkGetUserInfo(gt, login, fault) ==
  IF fault = "noresp" THEN [val |-> Nil, resp |-> Nil, err |-> TRUE]
  ELSE IF fault # "none" THEN [val |-> Nil, resp |-> Ptr(FaultStatus(fault)), err |-> TRUE]
  ELSE IF login \in DOMAIN gt.users
       THEN [val |-> Ptr(UserValue(gt, login)), resp |-> Ptr(StatusOK), err |-> FALSE]
       ELSE [val |-> Nil, resp |-> Ptr(StatusNotFound), err |-> TRUE]

\* client.AdminCreateUser
SdkAdminCreateUser(gt, opt, fault) ==
  IF fault # "none" \/ opt.Username \in DOMAIN gt.users
  THEN [gt |-> gt, val |-> Nil, err |-> TRUE]
  ELSE LET g1 == [gt EXCEPT
                   !.users = @ @@ (opt.Username :>
                       [loginName |-> opt.LoginName, fullName |-> opt.FullName,
                        email |-> opt.Email, sourceID |-> opt.SourceID,
                        mustChangePassword |-> opt.MustChangePassword])]
       IN [gt |-> g1, val |-> Ptr(UserValue(g1, opt.Username)), err |-> FALSE]

\* the lower-case form the server matches team names in
LowerChar(c) == IF c = "O" THEN "o" ELSE IF c = "A" THEN "a" ELSE c
Lower(s) == [i \in DOMAIN s |-> LowerChar(s[i])]

\* client.SearchOrgTeams: the teams of the organization whose name contains
\* the query (a keyword search), in the server's fixed order
SdkSearchOrgTeams(gt, org, query, fault) ==
  IF fault # "none" \/ org \notin DOMAIN gt.orgs
  THEN [val |-> <<>>, err |-> TRUE]
  ELSE LET hits == {id \in DOMAIN gt.teams :
                      /\ gt.teams[id].org = org
                      /\ IsInfix(Lower(query), Lower(gt.teams[id].name))}
           ids == Ascending(hits)
       IN [val |-> [i \in DOMAIN ids |-> TeamValue(gt, ids[i])], err |-> FALSE]

\* client.CreateTeam
SdkCreateTeam(gt, org, opt, fault) ==
  IF \/ fault # "none"
     \/ org \notin DOMAIN gt.orgs
     \/ opt.Permission \notin {AccessModeRead, AccessModeWrite, AccessModeAdmin}
     \/ \E id \in DOMAIN gt.teams :
          gt.teams[id].org = org /\ Lower(gt.teams[id].name) = Lower(opt.Name)
  THEN [gt |-> gt, val |-> Nil, err |-> TRUE]
  ELSE LET g1 == [gt EXCEPT !.teams = Append(@,
                      [org |-> org, name |-> opt.Name, permission |-> opt.Permission,
                       canCreateOrgRepo |-> opt.CanCreateOrgRepo])]
       IN [gt |-> g1, val |-> Ptr(TeamValue(g1, Len(g1.teams))), err |-> FALSE]

\* client.AddTeamMember: adding an existing member is not an error
SdkAddTeamMember(gt, id, user, fault) ==
  IF fault # "none" \/ id \notin DOMAIN gt.teams \/ user \notin DOMAIN gt.users
  THEN [gt |-> gt, err |-> TRUE]
  ELSE [gt |-> [gt EXCEPT !.members = @ \cup {<<id, user>>}], err |-> FALSE]

\* client.MigrateRepo
SdkMigrateRepo(gt, opt, fault) ==
  IF \/ fault # "none"
     \/ opt.RepoOwner \notin (DOMAIN gt.orgs \cup DOMAIN gt.users)
     \/ <<opt.RepoOwner, opt.RepoName>> \in DOMAIN gt.repos
  THEN [gt |-> gt, val |-> Nil, err |-> TRUE]
  ELSE [gt |-> [gt EXCEPT !.repos = @ @@ (<<opt.RepoOwner, opt.RepoName>> :> opt)],
        val |-> Ptr(opt), err |-> FALSE]

\* client.AddCollaborator
SdkAddCollaborator(gt, org, repo, user, access, fault) ==
  IF \/ fault # "none"
     \/ <<org, repo>> \notin DOMAIN gt.repos
     \/ user \notin DOMAIN gt.users
  THEN [gt |-> gt, err |-> TRUE]
  ELSE [gt |-> [gt EXCEPT !.collabs =
                  [k \in DOMAIN @ \cup {<<org, repo, user>>} |->
                     IF k = <<org, repo, user>> THEN access ELSE @[k]]],
        err |-> FALSE]

(***************************************************************************)
(* The Target Gateway (pkg/gitea).  Every operator returns the new         *)
(* destination state, the SDK calls it issued in order, the returned       *)
(* value and the returned error (Nil: no error).                           *)
(***************************************************************************)
GiteaError(op, code) == Ptr([Operation |-> op, Code |-> code])
PlainError == Ptr([Operation |-> "", Code |-> 0])

\* every answered lookup failure taken for not-found
OrgAnyResponse(resp) == ~IsNil(resp)

\* case response != nil && response.StatusCode == http.StatusNotFound
OrgNotFound(resp) == ~IsNil(resp) /\ Deref(resp) = StatusNotFound

CreateAndGetOrg(gt, opts, fGet, fCreate) ==
  LET get == SdkGetOrg(gt, opts.Name, fGet)
      cGet == Call("gt.GetOrg", [name |-> opts.Name], ~get.err)
      copt == [Name |-> opts.Name, Description |-> opts.Description,
               Visibility |-> opts.Visibility]
  IN IF get.err
     THEN IF OrgNotFound(get.resp)
          THEN LET cr == SdkCreateOrg(gt, copt, fCreate)
                   cCreate == Call("gt.CreateOrg", copt, ~cr.err)
               IN IF cr.err
                  THEN [gt |-> cr.gt, calls |-> <<cGet, cCreate>>, val |-> Nil,
                        err |-> GiteaError("create_org", Deref(get.resp))]
                  ELSE [gt |-> cr.gt, calls |-> <<cGet, cCreate>>, val |-> cr.val,
                        err |-> Nil]
          ELSE IF ~IsNil(get.resp)
               THEN [gt |-> gt, calls |-> <<cGet>>, val |-> Nil,
                     err |-> GiteaError("get_org", Deref(get.resp))]
               ELSE [gt |-> gt, calls |-> <<cGet>>, val |-> Nil, err |-> PlainError]
     ELSE [gt |-> gt, calls |-> <<cGet>>, val |-> get.val, err |-> Nil]

\* a request that leaves the new account forced to change its password
AdminCreateUserOptionMustChange(opts) ==
  [SourceID |-> opts.SourceID, LoginName |-> opts.LoginName,
   Username |-> opts.Username, FullName |-> opts.FullName,
   Email |-> opts.Email, MustChangePassword |-> TRUE]

\* the request of the AdminCreateUser call
AdminCreateUserOption(opts) ==
  [SourceID |-> opts.SourceID, LoginName |-> opts.LoginName,
   Username |-> opts.Username, FullName |-> opts.FullName,
   Email |-> opts.Email, MustChangePassword |-> FALSE]

CreateOrGetUser(gt, opts, fGet, fCreate) ==
  LET get == SdkGetUserInfo(gt, opts.Username, fGet)
      cGet == Call("gt.GetUserInfo", [user |-> opts.Username], ~get.err)
      copt == AdminCreateUserOption(opts)
  IN IF get.err /\ ~IsNil(get.resp) /\ Deref(get.resp) # StatusNotFound
     THEN [gt |-> gt, calls |-> <<cGet>>, val |-> Nil,
           err |-> GiteaError("get_user_info", Deref(get.resp))]
     ELSE IF ~IsNil(get.resp) /\ Deref(get.resp) = StatusNotFound
          THEN LET cr == SdkAdminCreateUser(gt, copt, fCreate)
                   cCreate == Call("gt.AdminCreateUser", copt, ~cr.err)
               IN IF cr.err
                  THEN [gt |-> cr.gt, calls |-> <<cGet, cCreate>>, val |-> Nil,
                        err |-> GiteaError("admin_create_user", StatusInternalServerError)]
                  ELSE [gt |-> cr.gt, calls |-> <<cGet, cCreate>>, val |-> cr.val,
                        err |-> Nil]
          ELSE [gt |-> gt, calls |-> <<cGet>>, val |-> get.val, err |-> Nil]

\* a switch that gives maintainers the admin level
TeamPermissionMaintainAdmin(p) ==
  IF p = GitHubTeamAdmin THEN Ptr(AccessModeAdmin)
  ELSE IF p = GitHubTeamPush THEN Ptr(AccessModeWrite)
  ELSE IF p = GitHubTeamPull THEN Ptr(AccessModeRead)
  ELSE IF p = GitHubTeamMaintain THEN Ptr(AccessModeAdmin)
  ELSE IF p = GitHubTeamTriager THEN Ptr(p)
  ELSE Nil

\* the switch on opts.Permission: the level the creation request carries,
\* Nil where the switch returns the error
TeamPermission(p) ==
  IF p = GitHubTeamAdmin THEN Ptr(AccessModeAdmin)
  ELSE IF p = GitHubTeamPush THEN Ptr(AccessModeWrite)
  ELSE IF p = GitHubTeamPull THEN Ptr(AccessModeRead)
  ELSE IF p = GitHubTeamMaintain THEN Ptr(AccessModeWrite)
  ELSE IF p = GitHubTeamTriager THEN Ptr(p)
  ELSE Nil

\* which element of a non-empty search result is reused
ReusedTeam(teams) == teams[1]

\* a lookup that never finds a team
TeamFoundNever(teams) == FALSE

\* len(teams) > 0: the search found a team to reuse
TeamFound(teams) == Len(teams) > 0

CreateOrGetTeam(gt, org, opts, fSearch, fCreate) ==
  LET perm == TeamPermission(opts.Permission)
      opt == [Name |-> opts.Name, Description |-> opts.Description,
              Permission |-> Deref(perm),
              CanCreateOrgRepo |-> (opts.Permission = GitHubTeamAdmin)]
      search == SdkSearchOrgTeams(gt, org, opts.Name, fSearch)
      cSearch == Call("gt.SearchOrgTeams", [org |-> org, query |-> opts.Name], ~search.err)
  IN IF IsNil(perm)
     THEN [gt |-> gt, calls |-> <<>>, val |-> Nil, err |-> PlainError]
     ELSE IF search.err
          THEN [gt |-> gt, calls |-> <<cSearch>>, val |-> Nil, err |-> PlainError]
          ELSE IF TeamFound(search.val)
               THEN [gt |-> gt, calls |-> <<cSearch>>,
                     val |-> Ptr(ReusedTeam(search.val)), err |-> Nil]
               ELSE LET cr == SdkCreateTeam(gt, org, opt, fCreate)
                        cCreate == Call("gt.CreateTeam", [org |-> org, opt |-> opt], ~cr.err)
                    IN IF cr.err
                       THEN [gt |-> cr.gt, calls |-> <<cSearch, cCreate>>,
                             val |-> Nil, err |-> PlainError]
                       ELSE [gt |-> cr.gt, calls |-> <<cSearch, cCreate>>,
                             val |-> cr.val, err |-> Nil]

AddTeamMember(gt, id, user, fault) ==
  LET r == SdkAddTeamMember(gt, id, user, fault)
  IN [gt |-> r.gt, calls |-> <<Call("gt.AddTeamMember", [id |-> id, user |-> user], ~r.err)>>,
      err |-> IF r.err THEN PlainError ELSE Nil]

\* a check that looks at the repository name only
MissingMigrationParamsNameOnly(opts) == opts.RepoName = ""

\* the required parameters of an import, checked before any call
MissingMigrationParams(opts) ==
  opts.RepoName = "" \/ opts.RepoOwner = "" \/ opts.CloneAddr = ""

\* an import request that leaves the wiki out
GsdkMigrateRepoOptionNoWiki(opts) ==
  [RepoName |-> opts.RepoName, RepoOwner |-> opts.RepoOwner,
   CloneAddr |-> opts.CloneAddr, Private |-> opts.Private,
   Description |-> opts.Description, AuthUsername |-> opts.AuthUsername,
   AuthToken |-> opts.AuthToken, Service |-> "github",
   Wiki |-> FALSE, Milestones |-> TRUE, Issues |-> TRUE,
   Releases |-> TRUE, Labels |-> TRUE, PullRequests |-> TRUE]

\* the import request built from the caller's options
GsdkMigrateRepoOption(opts) ==
  [RepoName |-> opts.RepoName, RepoOwner |-> opts.RepoOwner,
   CloneAddr |-> opts.CloneAddr, Private |-> opts.Private,
   Description |-> opts.Description, AuthUsername |-> opts.AuthUsername,
   AuthToken |-> opts.AuthToken, Service |-> "github",
   Wiki |-> TRUE, Milestones |-> TRUE, Issues |-> TRUE,
   Releases |-> TRUE, Labels |-> TRUE, PullRequests |-> TRUE]

MigrateRepo(gt, opts, fault) ==
  LET opt == GsdkMigrateRepoOption(opts)
      r == SdkMigrateRepo(gt, opt, fault)
  IN IF MissingMigrationParams(opts)
     THEN [gt |-> gt, calls |-> <<>>, val |-> Nil, err |-> PlainError]
     ELSE [gt |-> r.gt, calls |-> <<Call("gt.MigrateRepo", opt, ~r.err)>>, val |-> r.val,
           err |-> IF r.err THEN PlainError ELSE Nil]

\* a switch that looks at the push flag first
CollaboratorAccessPushFirst(permission) ==
  LET on(k) == k \in DOMAIN permission /\ permission[k]
  IN IF on(GitHubTeamPush) THEN AccessModeWrite
     ELSE IF on(GitHubTeamAdmin) THEN AccessModeAdmin
     ELSE IF on(GitHubTeamMaintain) THEN AccessModeOwner
     ELSE IF on(GitHubTeamPull) THEN AccessModeRead
     ELSE AccessModeRead

\* the switch on the permission bundle; an absent bundle or flag reads false
CollaboratorAccess(permission) ==
  LET on(k) == k \in DOMAIN permission /\ permission[k]
  IN IF on(GitHubTeamAdmin) THEN AccessModeAdmin
     ELSE IF on(GitHubTeamMaintain) THEN AccessModeOwner
     ELSE IF on(GitHubTeamPush) THEN AccessModeWrite
     ELSE IF on(GitHubTeamPull) THEN AccessModeRead
     ELSE AccessModeRead

AddCollaborator(gt, org, repo, user, permission, fault) ==
  LET access == CollaboratorAccess(permission)
      r == SdkAddCollaborator(gt, org, repo, user, access, fault)
  IN [gt |-> r.gt,
      calls |-> <<Call("gt.AddCollaborator",
                       [org |-> org, repo |-> repo, user |-> user, access |-> access],
                       ~r.err)>>,
      err |-> IF r.err THEN PlainError ELSE Nil]

(***************************************************************************)
(* The GitHub side: the source organization and what its API returns.      *)
(* Optional fields of the API are pointers, read with FromPtr.             *)
(***************************************************************************)
FromPtr(p, zero) == IF IsNil(p) THEN zero ELSE Deref(p)

SourceOrgName == "acme"
OtherOrgName == "acme-gt"
CurrentLogin == "admin-bot"
SourceToken == "gh-token"

MemberPool == <<"alice", "bob", "carol">>
RosterPool ==
  << <<"2024", "1", "alice", "alice@x", "admin">>,
     <<"2024", "2", "dave", "dave@x", "member">> >>

GhUserEntry(login, type, perms) ==
  [Login |-> Ptr(login), Type |-> Ptr(type), Name |-> Nil, Email |-> Nil,
   Permissions |-> perms]

\* Users.Get returns the profile; it carries no repository permissions
GhProfile(login) ==
  [Login |-> Ptr(login), Type |-> Ptr("User"), Name |-> Ptr(login),
   Email |-> Nil, Permissions |-> EmptyFn]

OrgRole(login) == IF login = "alice" THEN "admin" ELSE "member"

TeamPool ==
  << [Name |-> Ptr(<<"a", "/">>), Slug |-> Ptr("a-1"), Description |-> Nil,
      Permission |-> Ptr("push")],
     [Name |-> Ptr(<<"a", "!">>), Slug |-> Ptr("a-2"), Description |-> Nil,
      Permission |-> Ptr("maintain")],
     [Name |-> Ptr(<<"a">>), Slug |-> Ptr("a"), Description |-> Nil,
      Permission |-> Ptr("triage")] >>

TeamMembers(slug) ==
  IF slug = "a-1" THEN <<"alice", "bob">>
  ELSE IF slug = "a-2" THEN <<"bob">>
  ELSE <<"carol">>

TeamRepos(slug) ==
  IF slug = "a-1" THEN <<"r1">>
  ELSE IF slug = "a-2" THEN <<"r1", "r2">>
  ELSE <<>>

RepoEntry(name, url, private) ==
  [Name |-> Ptr(name), Owner |-> Ptr([Login |-> Ptr(SourceOrgName)]),
   CloneURL |-> Ptr(url), Description |-> Nil, Private |-> Ptr(private)]

\* the same entry with a description and without the visibility field
DescribedRepoEntry(name, url, desc) ==
  [RepoEntry(name, url, FALSE) EXCEPT !.Description = Ptr(desc), !.Private = Nil]

RepoPool ==
  << RepoEntry("r1", "https://gh/acme/r1.git", TRUE),
     DescribedRepoEntry("r2", "https://gh/acme/r2.git", "second"),
     RepoEntry("r3", "https://gh/acme/r3.git", TRUE) >>

RepoCollaborators(name) ==
  IF name = "r1"
  THEN << GhUserEntry("alice", "User", (GitHubTeamAdmin :> TRUE) @@ (GitHubTeamPush :> TRUE)),
          GhUserEntry("ci", "Bot", (GitHubTeamPush :> TRUE)) >>
  ELSE IF name = "r3"
       \* an entry the API returned without a type
       THEN << [GhUserEntry("ghost", "", EmptyFn) EXCEPT !.Type = Nil],
               GhUserEntry("bob", "User", (GitHubTeamPull :> TRUE)) >>
       \* erin is an outside collaborator: no member of the organization
       ELSE << GhUserEntry("bob", "User", (GitHubTeamPull :> TRUE)),
               GhUserEntry("erin", "User", (GitHubTeamPush :> TRUE)) >>

UserKeys(login) == IF login = "alice" THEN <<"k1", "k2">> ELSE <<"k3">>

Prefix(pool, n) == SubSeq(pool, 1, Min(n, Len(pool)))

\* every GitHub read: fails when forced to, or when the organization named
\* does not exist on the source
GhFails(org, fault) == fault # "none" \/ org # SourceOrgName

(***************************************************************************)
(* The orchestrator.                                                       *)
(***************************************************************************)
VARIABLES
  pc,         \* position of the run
  ver,        \* which pkg/migrate the run is built with (1: migrate.go, 2: part_002)
  cfg,        \* the configuration: SourceOrg, TargetOrg, UserListFile, GTSourceID
  gt,         \* the destination platform
  calls,      \* every remote call issued so far, in order
  faults,     \* remote failures injected so far
  users, u, keyStats,                 \* roster: parsed entries, loop index, per-user key summary
  ghUser, gtUser, ghOrg,              \* migrateOrgAndRepos: current users, source organization
  org, ownerTeam, ghUsers, admins,    \* CreateNewOrg locals
  ghTeams, repoTeams, i, t,
  ghRepos, r, attempted,              \* repository loop: listing, index, MigrateNewRepo results
  retErr,                             \* what migrateOrgAndRepos returned (Nil: nil)
  gw                                  \* the gateway methods invoked one by one, with their results

rosterVars == <<users, u, keyStats>>
authVars == <<ghUser, gtUser, ghOrg>>
orgVars == <<org, ownerTeam, ghUsers, admins, ghTeams, repoTeams, i, t>>
repoVars == <<ghRepos, r, attempted>>
vars == <<pc, ver, cfg, gt, calls, faults, rosterVars, authVars, orgVars, repoVars, retErr, gw>>

\* a destination left by an earlier run against the same target; bob is a
\* local account registered by hand: it has no authentication login name
SeededGitea(target) ==
  [EmptyGitea EXCEPT
     !.orgs = (target :> [description |-> "old", visibility |-> VisibleTypePrivate]),
     !.teams = << [org |-> target, name |-> <<"O", "w", "n", "e", "r", "s">>,
                   permission |-> AccessModeOwner, canCreateOrgRepo |-> TRUE],
                  [org |-> target, name |-> <<"a", "_">>,
                   permission |-> AccessModeRead, canCreateOrgRepo |-> FALSE] >>,
     !.users = ("alice" :> [loginName |-> "alice", fullName |-> "Alice A",
                            email |-> "alice@old", sourceID |-> 0,
                            mustChangePassword |-> FALSE])
               @@ ("bob" :> [loginName |-> "", fullName |-> "Bob B",
                             email |-> "bob@local", sourceID |-> 0,
                             mustChangePassword |-> FALSE]),
     !.keys = {<<"alice", "k1">>}]

\* the run-wide deadline (context.WithTimeout in main) falls between two
\* steps of the run: cfg.Deadline is the number of remote calls made before
\* it, 0 when the run ends before the deadline
Deadlines == {5 * d : d \in 0..MaxDeadlines}
Expired == cfg.Deadline > 0 /\ Len(calls) >= cfg.Deadline

\* a destination client built without the context
SetContextOmitted == FALSE

\* the destination client is built with gsdk.SetContext(g.ctx); the calls
\* of the source client get ctx as their first argument
SetContext == TRUE

\* the calls of the gateway to the destination
GiteaCalls ==
  {"gt.GetMyUserInfo", "gt.GetOrg", "gt.CreateOrg", "gt.GetUserInfo",
   "gt.AdminCreateUser", "gt.SearchOrgTeams", "gt.CreateTeam", "gt.AddTeamMember",
   "gt.CreateUserPublicKey", "gt.AddCollaborator", "gt.MigrateRepo"}

\* a call made with an expired context fails
Timely ==
  Expired =>
    \A k \in (Len(calls) + 1)..Len(calls') :
      (calls'[k].api \notin GiteaCalls \/ SetContext) => ~calls'[k].ok

Init ==
  /\ pc = "main"
  /\ ver \in {1, 2}
  /\ cfg \in [SourceOrg : {SourceOrgName}, TargetOrg : {SourceOrgName, OtherOrgName},
              UserListFile : {"", "users.csv"}, GTSourceID : {7}, GHToken : {SourceToken},
              Deadline : Deadlines]
  /\ gt \in {EmptyGitea, SeededGitea(cfg.TargetOrg)}
  /\ calls = <<>>
  /\ faults = 0
  /\ users = <<>> /\ u = 1 /\ keyStats = <<>>
  /\ ghUser = Nil /\ gtUser = Nil /\ ghOrg = Nil
  /\ org = Nil /\ ownerTeam = Nil /\ ghUsers = <<>> /\ admins = <<>>
  /\ ghTeams = <<>> /\ repoTeams = EmptyFn /\ i = 1 /\ t = 1
  /\ ghRepos = <<>> /\ r = 1 /\ attempted = <<>>
  /\ retErr = Nil
  /\ gw = <<>>

Used(f) == IF f # "none" THEN 1 ELSE 0
\* the failures a gateway call consumed: one per SDK call it issued
GwUsed(res, f1, f2) ==
  (IF Len(res.calls) >= 1 THEN Used(f1) ELSE 0) + (IF Len(res.calls) >= 2 THEN Used(f2) ELSE 0)

\* an action consumes exactly the failures it is given; the calls that fail
\* because the deadline has passed are not counted
Exact(fs, nf) ==
  /\ FaultCount(fs) = nf
  /\ IF Expired THEN faults' = faults
     ELSE faults + nf <= MaxFaults /\ faults' = faults + nf

(***************************************************************************)
(* main: the roster phase runs first when a user list file is given.       *)
(***************************************************************************)
\* the records csv.ReadAll returns for the file
RosterFile == << <<"created", "id", "login", "email", "role">> >> \o Prefix(RosterPool, MaxRoster)

readUserList(records) ==
  LET keep == {k \in DOMAIN records : ~(k = 1 \/ Len(records[k]) < 5)}
      ks == Ascending(keep)
  IN [j \in DOMAIN ks |-> [Login |-> records[ks[j]][3], Email |-> records[ks[j]][4],
                           Role |-> records[ks[j]][5]]]

Main ==
  /\ pc = "main"
  /\ IF cfg.UserListFile # ""
     THEN \E f \in WriteFaults :
            /\ Exact(<<f>>, Used(f))
            /\ IF f # "none"
               THEN pc' = "done" /\ users' = users
               ELSE pc' = "roster" /\ users' = readUserList(RosterFile)
     ELSE pc' = "auth" /\ users' = users /\ faults' = faults
  /\ UNCHANGED <<gw, ver, cfg, gt, calls, u, keyStats, authVars, orgVars, repoVars, retErr>>
  /\ Timely

KeyUsedMsg == <<"Key", "content", "has", "been", "used">>

containsKeyUsedMsg(msg) ==
  /\ msg # <<>>
  /\ \/ IsInfix(<<"key", "content", "has", "been", "used">>, msg)
     \/ IsInfix(<<"Key", "content", "has", "been", "used">>, msg)

\* the ways an upload can fail besides the plain failure: an invalid key, the
\* duplicate phrase under another status, the phrase in lower case inside a
\* longer message, status 422 without a message, and an error that is not a
\* GiteaError
KeyFaults == WriteFaults \cup {"invalid", "used500", "usedLower", "noMessage", "transport"}

\* gtClient.CreateUserPublicKey: the destination refuses a key whose content
\* is already registered
CreateUserPublicKey(g, user, opt, fault) ==
  LET c(ok) == Call("gt.CreateUserPublicKey", [user |-> user, key |-> opt.Key], ok)
      e(code, msg) == Ptr([Operation |-> "create_public_key", Code |-> code,
                           Message |-> msg])
  IN IF fault \in KeyFaults \ WriteFaults
     THEN [gt |-> g, calls |-> <<c(FALSE)>>,
           err |-> CASE fault = "invalid" ->
                          e(StatusUnprocessableEntity, <<"invalid", "key">>)
                     [] fault = "used500" -> e(StatusInternalServerError, KeyUsedMsg)
                     [] fault = "usedLower" ->
                          e(StatusUnprocessableEntity,
                            <<"the", "key", "content", "has", "been", "used", "before">>)
                     [] fault = "noMessage" -> e(StatusUnprocessableEntity, <<>>)
                     [] fault = "transport" -> PlainError]
     ELSE IF fault # "none" \/ user \notin DOMAIN g.users
     THEN [gt |-> g, calls |-> <<c(FALSE)>>,
           err |-> Ptr([Operation |-> "create_public_key",
                        Code |-> StatusInternalServerError, Message |-> <<"boom">>])]
     ELSE IF \E k \in g.keys : k[2] = opt.Key
          THEN [gt |-> g, calls |-> <<c(FALSE)>>,
                err |-> Ptr([Operation |-> "create_public_key",
                             Code |-> StatusUnprocessableEntity, Message |-> KeyUsedMsg])]
          ELSE [gt |-> [g EXCEPT !.keys = @ \cup {<<user, opt.Key>>}],
                calls |-> <<c(TRUE)>>, err |-> Nil]

\* a test that looks at the status only
IsDuplicateKeyStatusOnly(err) ==
  /\ ~IsNil(err)
  /\ Deref(err).Code = StatusUnprocessableEntity

\* giteaErr, ok := err.(*gt.GiteaError); ok && Code == 422 && Message != ""
\* && containsKeyUsedMsg(Message); an error without operation is no GiteaError
IsDuplicateKey(err) ==
  /\ ~IsNil(err)
  /\ Deref(err).Operation # ""
  /\ Deref(err).Code = StatusUnprocessableEntity
  /\ Deref(err).Message # <<>>
  /\ containsKeyUsedMsg(Deref(err).Message)

\* a loop that counts a key that exists as a failure as well
RECURSIVE KeyLoopNoContinue(_, _, _, _, _, _)
KeyLoopNoContinue(g, login, sshKeys, fk, k, acc) ==
  IF k > Len(sshKeys) THEN [acc EXCEPT !.gt = g]
  ELSE LET res == CreateUserPublicKey(g, login, [Key |-> sshKeys[k]], fk[k])
           isDup == IsDuplicateKey(res.err)
           acc1 == [acc EXCEPT
                      !.calls = @ \o res.calls,
                      !.errs = Append(@, res.err),
                      !.success = IF IsNil(res.err) THEN @ + 1 ELSE @,
                      !.exists = IF isDup THEN @ + 1 ELSE @,
                      !.failed = IF ~IsNil(res.err) THEN @ + 1 ELSE @]
       IN KeyLoopNoContinue(res.gt, login, sshKeys, fk, k + 1, acc1)

\* the loop over one user's keys, from key k on
RECURSIVE KeyLoop(_, _, _, _, _, _)
KeyLoop(g, login, sshKeys, fk, k, acc) ==
  IF k > Len(sshKeys) THEN [acc EXCEPT !.gt = g]
  ELSE LET res == CreateUserPublicKey(g, login, [Key |-> sshKeys[k]], fk[k])
           isDup == IsDuplicateKey(res.err)
           acc1 == [acc EXCEPT
                      !.calls = @ \o res.calls,
                      !.errs = Append(@, res.err),
                      !.success = IF IsNil(res.err) THEN @ + 1 ELSE @,
                      !.exists = IF isDup THEN @ + 1 ELSE @,
                      !.failed = IF ~IsNil(res.err) /\ ~isDup THEN @ + 1 ELSE @]
       IN KeyLoop(res.gt, login, sshKeys, fk, k + 1, acc1)

\* one iteration of createUsersFromCSV
RosterStep(g, usr, fGet, fLook, fCreate, fList, fk) ==
  LET cGet == Call("gh.GetUser", [user |-> usr.Login], fGet = "none")
      ghU == GhProfile(usr.Login)
      opt == [SourceID |-> cfg.GTSourceID, LoginName |-> usr.Login,
              Username |-> usr.Login, FullName |-> FromPtr(ghU.Name, ""),
              Email |-> usr.Email]
      cu == CreateOrGetUser(g, opt, fLook, fCreate)
      cList == Call("gh.ListUserKeys", [user |-> usr.Login], fList = "none")
      sshKeys == UserKeys(usr.Login)
      loop == KeyLoop(cu.gt, usr.Login, sshKeys, fk, 1,
                      [gt |-> cu.gt, calls |-> <<>>, errs |-> <<>>,
                       success |-> 0, exists |-> 0, failed |-> 0])
  IN IF fGet # "none"
     THEN [gt |-> g, calls |-> <<cGet>>, nf |-> 1, stat |-> Nil]
     ELSE IF ~IsNil(cu.err)
          THEN [gt |-> cu.gt, calls |-> <<cGet>> \o cu.calls,
                nf |-> GwUsed(cu, fLook, fCreate), stat |-> Nil]
          ELSE IF fList # "none"
               THEN [gt |-> cu.gt, calls |-> <<cGet>> \o cu.calls \o <<cList>>,
                     nf |-> GwUsed(cu, fLook, fCreate) + 1, stat |-> Nil]
               ELSE [gt |-> loop.gt,
                     calls |-> <<cGet>> \o cu.calls \o <<cList>> \o loop.calls,
                     nf |-> GwUsed(cu, fLook, fCreate) + FaultCount(fk),
                     stat |-> Ptr([login |-> usr.Login, total |-> Len(sshKeys),
                                   success |-> loop.success, exists |-> loop.exists,
                                   failed |-> loop.failed])]

\* a roster loop that gives up at the first user that fails
RosterUserAbort ==
  /\ pc = "roster"
  /\ IF u > Len(users)
     THEN /\ pc' = "auth"
          /\ UNCHANGED <<gt, calls, faults, u, keyStats>>
     ELSE \E fGet \in WriteFaults, fLook \in ReadFaults, fCreate \in WriteFaults,
             fList \in WriteFaults,
             fk \in [1..Len(UserKeys(users[u].Login)) -> WriteFaults] :
            LET st == RosterStep(gt, users[u], fGet, fLook, fCreate, fList, fk)
            IN /\ Exact(<<fGet, fLook, fCreate, fList>> \o fk, st.nf)
               /\ gt' = st.gt
               /\ calls' = calls \o st.calls
               /\ keyStats' = keyStats \o st.stat
               /\ u' = u + 1
               /\ pc' = IF IsNil(st.stat) THEN "done" ELSE pc
  /\ UNCHANGED <<gw, ver, cfg, users, authVars, orgVars, repoVars, retErr>>

\* one iteration of the loop of createUsersFromCSV, or its end
RosterUser ==
  /\ pc = "roster"
  /\ IF u > Len(users)
     THEN /\ pc' = "auth"
          /\ UNCHANGED <<gt, calls, faults, u, keyStats>>
     ELSE \E fGet \in WriteFaults, fLook \in ReadFaults, fCreate \in WriteFaults,
             fList \in WriteFaults,
             fk \in [1..Len(UserKeys(users[u].Login)) -> WriteFaults] :
            LET st == RosterStep(gt, users[u], fGet, fLook, fCreate, fList, fk)
            IN /\ Exact(<<fGet, fLook, fCreate, fList>> \o fk, st.nf)
               /\ gt' = st.gt
               /\ calls' = calls \o st.calls
               /\ keyStats' = keyStats \o st.stat
               /\ u' = u + 1
               /\ pc' = pc
  /\ UNCHANGED <<gw, ver, cfg, users, authVars, orgVars, repoVars, retErr>>
  /\ Timely

(***************************************************************************)
(* migrateOrgAndRepos: authentication, source organization.                *)
(***************************************************************************)
\* repositories first, the organization and its teams afterwards
PhaseAfterReposFirst(p) ==
  CASE p = "getOrg" -> "listRepos"
    [] p = "repo" -> "createOrg"
    [] p = "team" -> "done"

\* the order of the steps of migrateOrgAndRepos after the source organization
\* is fetched: CreateNewOrg, then the repository listing and loop, then return
PhaseAfter(p) ==
  CASE p = "getOrg" -> "createOrg"
    [] p = "team" -> "listRepos"
    [] p = "repo" -> "done"

Authenticate ==
  /\ pc = "auth"
  /\ \E fGh \in WriteFaults, fGt \in WriteFaults :
       LET cGh == Call("gh.GetCurrentUser", [user |-> ""], fGh = "none")
           cGt == Call("gt.GetMyUserInfo", [user |-> ""], fGt = "none")
       IN IF fGh # "none"
          THEN /\ Exact(<<fGh, fGt>>, 1)
               /\ calls' = Append(calls, cGh)
               /\ pc' = "done" /\ retErr' = PlainError
               /\ UNCHANGED <<ghUser, gtUser>>
          ELSE IF fGt # "none"
               THEN /\ Exact(<<fGh, fGt>>, 1)
                    /\ calls' = calls \o <<cGh, cGt>>
                    /\ ghUser' = Ptr(GhProfile(CurrentLogin))
                    /\ pc' = "done" /\ retErr' = PlainError
                    /\ UNCHANGED gtUser
               ELSE /\ Exact(<<fGh, fGt>>, 0)
                    /\ calls' = calls \o <<cGh, cGt>>
                    /\ ghUser' = Ptr(GhProfile(CurrentLogin))
                    /\ gtUser' = Ptr([UserName |-> CurrentLogin])
                    /\ pc' = "getOrg" /\ retErr' = retErr
  /\ UNCHANGED <<gw, ver, cfg, gt, rosterVars, ghOrg, orgVars, repoVars>>
  /\ Timely

GetSourceOrg ==
  /\ pc = "getOrg"
  /\ \E f \in WriteFaults :
       /\ Exact(<<f>>, Used(f))
       /\ calls' = Append(calls, Call("gh.GetOrg", [org |-> cfg.SourceOrg],
                                 ~GhFails(cfg.SourceOrg, f)))
       /\ IF GhFails(cfg.SourceOrg, f)
          THEN pc' = "done" /\ retErr' = PlainError /\ ghOrg' = ghOrg
          ELSE /\ pc' = PhaseAfter("getOrg") /\ retErr' = retErr
               /\ ghOrg' = Ptr([Login |-> Ptr(cfg.SourceOrg), Description |-> Ptr("the org")])
  /\ UNCHANGED <<gw, ver, cfg, gt, rosterVars, ghUser, gtUser, orgVars, repoVars>>
  /\ Timely

(***************************************************************************)
(* CreateNewOrg.                                                           *)
(***************************************************************************)
\* the organization name CreateNewOrg reads the source with: opts.Name in
\* migrate.go (the caller passes the target name), opts.OldName in part_002
SrcName == IF ver = 1 THEN cfg.TargetOrg ELSE cfg.SourceOrg
\* the organization name CreateNewOrg writes the destination with
DstName == cfg.TargetOrg

LowerLetters ==
  {"a", "b", "c", "d", "e", "f", "g", "h", "i", "j", "k", "l", "m",
   "n", "o", "p", "q", "r", "s", "t", "u", "v", "w", "x", "y", "z"}
UpperLetters ==
  {"A", "B", "C", "D", "E", "F", "G", "H", "I", "J", "K", "L", "M",
   "N", "O", "P", "Q", "R", "S", "T", "U", "V", "W", "X", "Y", "Z"}
Digits == {"0", "1", "2", "3", "4", "5", "6", "7", "8", "9"}
\* the characters invalidCharsRegex does not match
AlphaDashDot == LowerLetters \cup UpperLetters \cup Digits \cup {"-", "_", "."}

\* a sanitization that removes the characters it does not allow
SanitizeDrop(name) == SelectSeq(name, LAMBDA c : c \in AlphaDashDot)

\* invalidCharsRegex.ReplaceAllString(name, "_")
Sanitize(name) == [k \in DOMAIN name |-> IF name[k] \in AlphaDashDot THEN name[k] ELSE "_"]

CreateOrg ==
  /\ pc = "createOrg"
  /\ \E fGet \in ReadFaults, fCreate \in WriteFaults :
       LET res == CreateAndGetOrg(gt, [Name |-> DstName,
                                       Description |-> FromPtr(Deref(ghOrg).Description, ""),
                                       Visibility |-> VisibleTypePrivate], fGet, fCreate)
       IN /\ Exact(<<fGet, fCreate>>, GwUsed(res, fGet, fCreate))
          /\ gt' = res.gt
          /\ calls' = calls \o res.calls
          /\ IF ~IsNil(res.err)
             THEN pc' = "done" /\ retErr' = res.err /\ org' = org
             ELSE /\ pc' = IF ver = 2 THEN "owners" ELSE "listMembers"
                  /\ retErr' = retErr /\ org' = res.val
  /\ UNCHANGED <<gw, ver, cfg, rosterVars, authVars, ownerTeam, ghUsers, admins, ghTeams,
                 repoTeams, i, t, repoVars>>
  /\ Timely

\* part_002 only: the owners team of the destination organization
SearchOwners ==
  /\ pc = "owners"
  /\ \E f \in WriteFaults :
       LET q == <<"o", "w", "n", "e", "r", "s">>
           res == SdkSearchOrgTeams(gt, Deref(org).UserName, q, f)
       IN /\ Exact(<<f>>, Used(f))
          /\ calls' = Append(calls, Call("gt.SearchOrgTeams",
                                         [org |-> Deref(org).UserName, query |-> q],
                                         ~res.err))
          /\ IF res.err
             THEN pc' = "done" /\ retErr' = PlainError /\ ownerTeam' = ownerTeam
             ELSE IF Len(res.val) = 0
                  THEN pc' = "crashed" /\ retErr' = retErr /\ ownerTeam' = ownerTeam
                  ELSE pc' = "listMembers" /\ retErr' = retErr /\ ownerTeam' = Ptr(res.val[1])
  /\ UNCHANGED <<gw, ver, cfg, gt, rosterVars, authVars, org, ghUsers, admins, ghTeams,
                 repoTeams, i, t, repoVars>>
  /\ Timely

ListMembers ==
  /\ pc = "listMembers"
  /\ \E f \in WriteFaults :
       /\ Exact(<<f>>, Used(f))
       /\ calls' = Append(calls, Call("gh.ListOrgUsers", [org |-> SrcName],
                                 ~GhFails(SrcName, f)))
       /\ IF GhFails(SrcName, f)
          THEN pc' = "done" /\ retErr' = PlainError /\ ghUsers' = ghUsers
          ELSE /\ pc' = "member" /\ retErr' = retErr
               /\ ghUsers' = [k \in 1..Min(MaxMembers, Len(MemberPool)) |->
                                GhUserEntry(MemberPool[k], "User", EmptyFn)]
  /\ i' = 1
  /\ UNCHANGED <<gw, ver, cfg, gt, rosterVars, authVars, org, ownerTeam, admins, ghTeams,
                 repoTeams, t, repoVars>>
  /\ Timely

\* the role GetOrgMembership reports; with an empty user name the API
\* answers for the authenticated user
GhOrgMembership(user) == IF user = "" THEN "admin" ELSE OrgRole(user)

\* one iteration of the member loop of CreateNewOrg
MemberStep(g, entry, fGet, fLook, fCreate, fRole, fAdd) ==
  LET login == FromPtr(entry.Login, "")
      cGet == Call("gh.GetUser", [user |-> login], fGet = "none")
      ghU == GhProfile(login)
      cu == CreateOrGetUser(g, [LoginName |-> FromPtr(ghU.Login, ""),
                                Username |-> FromPtr(ghU.Login, ""),
                                FullName |-> FromPtr(ghU.Name, ""),
                                Email |-> FromPtr(ghU.Email, ""),
                                SourceID |-> cfg.GTSourceID], fLook, fCreate)
      nfu == GwUsed(cu, fLook, fCreate)
      gtU == Deref(cu.val)
      cRole == Call("gh.GetOrgMembership", [org |-> SrcName, user |-> gtU.LoginName],
                    ~GhFails(SrcName, fRole))
      role == GhOrgMembership(gtU.LoginName)
      add == AddTeamMember(cu.gt, Deref(ownerTeam).ID, gtU.UserName, fAdd)
      base == [gt |-> g, calls |-> <<cGet>>, nf |-> 0, crash |-> FALSE, admin |-> Nil]
  IN IF fGet # "none"
     \* GetUser returned nil: ghUser.Login in the log statement panics
     THEN [base EXCEPT !.nf = 1, !.crash = TRUE]
     ELSE IF ~IsNil(cu.err)
          THEN [base EXCEPT !.gt = cu.gt, !.calls = @ \o cu.calls, !.nf = nfu]
          ELSE IF IsNil(cu.val)
               \* CreateOrGetUser returned nil, nil: gtUser.LoginName panics
               THEN [base EXCEPT !.gt = cu.gt, !.calls = @ \o cu.calls, !.nf = nfu,
                                 !.crash = TRUE]
               ELSE IF GhFails(SrcName, fRole)
                    THEN [base EXCEPT !.gt = cu.gt, !.calls = @ \o cu.calls \o <<cRole>>,
                                      !.nf = nfu + Used(fRole)]
                    ELSE IF ver = 2 /\ role = "admin"
                         THEN [base EXCEPT !.gt = add.gt,
                                           !.calls = @ \o cu.calls \o <<cRole>> \o add.calls,
                                           !.nf = nfu + Used(fAdd),
                                           !.admin = cu.val]
                         ELSE [base EXCEPT !.gt = cu.gt,
                                           !.calls = @ \o cu.calls \o <<cRole>>,
                                           !.nf = nfu]

Member ==
  /\ pc = "member"
  /\ IF i > Len(ghUsers)
     THEN /\ pc' = "listTeams"
          /\ UNCHANGED <<gt, calls, faults, admins, i>>
     ELSE \E fGet \in WriteFaults, fLook \in ReadFaults, fCreate \in WriteFaults,
             fRole \in WriteFaults, fAdd \in WriteFaults :
            LET st == MemberStep(gt, ghUsers[i], fGet, fLook, fCreate, fRole, fAdd)
            IN /\ Exact(<<fGet, fLook, fCreate, fRole, fAdd>>, st.nf)
               /\ gt' = st.gt
               /\ calls' = calls \o st.calls
               /\ admins' = admins \o st.admin
               /\ i' = i + 1
               /\ pc' = IF st.crash THEN "crashed" ELSE pc
  /\ UNCHANGED <<gw, ver, cfg, rosterVars, authVars, org, ownerTeam, ghUsers, ghTeams,
                 repoTeams, t, repoVars, retErr>>
  /\ Timely

ListTeams ==
  /\ pc = "listTeams"
  /\ \E f \in WriteFaults :
       /\ Exact(<<f>>, Used(f))
       /\ calls' = Append(calls, Call("gh.ListTeams", [org |-> SrcName],
                                 ~GhFails(SrcName, f)))
       /\ IF GhFails(SrcName, f)
          THEN /\ ghTeams' = <<>>
               \* migrate.go drops the error and goes on with no team
               /\ IF ver = 1
                  THEN pc' = "team" /\ retErr' = retErr
                  ELSE pc' = "done" /\ retErr' = PlainError
          ELSE /\ pc' = "team" /\ retErr' = retErr
               /\ ghTeams' = Prefix(TeamPool, MaxTeams)
  /\ t' = 1
  /\ UNCHANGED <<gw, ver, cfg, gt, rosterVars, authVars, org, ownerTeam, ghUsers, admins,
                 repoTeams, i, repoVars>>
  /\ Timely

\* a member loop that gives the team up at the first failed addition
RECURSIVE TeamMemberLoopAbort(_, _, _, _, _, _)
TeamMemberLoopAbort(g, id, logins, fAdd, k, cs) ==
  IF k > Len(logins) THEN [gt |-> g, calls |-> cs]
  ELSE LET res == AddTeamMember(g, id, logins[k], fAdd[k])
       IN IF ~IsNil(res.err)
          THEN [gt |-> res.gt, calls |-> cs \o res.calls]
          ELSE TeamMemberLoopAbort(res.gt, id, logins, fAdd, k + 1, cs \o res.calls)

\* the loop adding the members of one team, from member k on
RECURSIVE TeamMemberLoop(_, _, _, _, _, _)
TeamMemberLoop(g, id, logins, fAdd, k, cs) ==
  IF k > Len(logins) THEN [gt |-> g, calls |-> cs]
  ELSE LET res == AddTeamMember(g, id, logins[k], fAdd[k])
       IN TeamMemberLoop(res.gt, id, logins, fAdd, k + 1, cs \o res.calls)

\* an association kept for the first listed repository only
AddRepoTeamsFirstOnly(rt, names, team) ==
  IF names = <<>> THEN rt
  ELSE LET nm == Head(names)
           old == IF nm \in DOMAIN rt THEN rt[nm] ELSE <<>>
       IN [k \in DOMAIN rt \cup {nm} |-> IF k = nm THEN Append(old, team) ELSE rt[k]]

\* repoTeams[name] = append(repoTeams[name], team) for every listed repository
RECURSIVE AddRepoTeams(_, _, _)
AddRepoTeams(rt, names, team) ==
  IF names = <<>> THEN rt
  ELSE LET nm == Head(names)
           old == IF nm \in DOMAIN rt THEN rt[nm] ELSE <<>>
           rt1 == [k \in DOMAIN rt \cup {nm} |-> IF k = nm THEN Append(old, team) ELSE rt[k]]
       IN AddRepoTeams(rt1, Tail(names), team)

\* one iteration of the team loop of CreateNewOrg
TeamStep(g, rt, ghTeam, fRepos, fSearch, fCreate, fMembers, fAdd) ==
  LET slug == Deref(ghTeam.Slug)
      cRepos == IF ver = 2
                THEN <<Call("gh.ListTeamReposBySlug", [org |-> SrcName, slug |-> slug],
                       ~GhFails(SrcName, fRepos))>>
                ELSE <<>>
      ct == CreateOrGetTeam(g, DstName,
                            [Name |-> Sanitize(FromPtr(ghTeam.Name, <<>>)),
                             Description |-> FromPtr(ghTeam.Description, ""),
                             Permission |-> FromPtr(ghTeam.Permission, "")],
                            fSearch, fCreate)
      nft == GwUsed(ct, fSearch, fCreate) + IF ver = 2 THEN Used(fRepos) ELSE 0
      team == Deref(ct.val)
      rt1 == IF ver = 2 THEN AddRepoTeams(rt, TeamRepos(slug), team) ELSE rt
      cMembers == Call("gh.ListTeamMembersBySlug", [org |-> SrcName, slug |-> slug],
                       ~GhFails(SrcName, fMembers))
      logins == TeamMembers(slug)
      loop == TeamMemberLoop(ct.gt, team.ID, logins, fAdd, 1, <<>>)
      base == [gt |-> g, calls |-> cRepos, nf |-> 0, crash |-> FALSE, repoTeams |-> rt]
  IN IF IsNil(ghTeam.Slug)
     \* *ghTeam.Slug panics: at once in part_002, after the team in migrate.go
     THEN IF ver = 2 \/ ~IsNil(ct.err)
          THEN [base EXCEPT !.calls = IF ver = 2 THEN <<>> ELSE ct.calls,
                            !.gt = IF ver = 2 THEN g ELSE ct.gt,
                            !.nf = IF ver = 2 THEN 0 ELSE GwUsed(ct, fSearch, fCreate),
                            !.crash = (ver = 2)]
          ELSE [base EXCEPT !.calls = ct.calls, !.gt = ct.gt,
                            !.nf = GwUsed(ct, fSearch, fCreate), !.crash = TRUE]
     ELSE IF ver = 2 /\ GhFails(SrcName, fRepos)
          THEN [base EXCEPT !.nf = Used(fRepos)]
          ELSE IF ~IsNil(ct.err)
               THEN [base EXCEPT !.gt = ct.gt, !.calls = @ \o ct.calls, !.nf = nft]
               ELSE IF GhFails(SrcName, fMembers)
                    THEN [base EXCEPT !.gt = ct.gt, !.calls = @ \o ct.calls \o <<cMembers>>,
                                      !.nf = nft + Used(fMembers), !.repoTeams = rt1]
                    ELSE [base EXCEPT !.gt = loop.gt,
                                      !.calls = @ \o ct.calls \o <<cMembers>> \o loop.calls,
                                      !.nf = nft + FaultCount(fAdd), !.repoTeams = rt1]

Team ==
  /\ pc = "team"
  /\ IF t > Len(ghTeams)
     THEN /\ pc' = PhaseAfter("team")
          /\ UNCHANGED <<gt, calls, faults, repoTeams, t>>
     ELSE \E fRepos \in WriteFaults, fSearch \in WriteFaults, fCreate \in WriteFaults,
             fMembers \in WriteFaults,
             fAdd \in [1..Len(TeamMembers(FromPtr(ghTeams[t].Slug, ""))) -> WriteFaults] :
            LET st == TeamStep(gt, repoTeams, ghTeams[t], fRepos, fSearch, fCreate,
                               fMembers, fAdd)
            IN /\ Exact(<<fRepos, fSearch, fCreate, fMembers>> \o fAdd, st.nf)
               /\ gt' = st.gt
               /\ calls' = calls \o st.calls
               /\ repoTeams' = st.repoTeams
               /\ t' = t + 1
               /\ pc' = IF st.crash THEN "crashed" ELSE pc
  /\ UNCHANGED <<gw, ver, cfg, rosterVars, authVars, org, ownerTeam, ghUsers, admins, ghTeams,
                 i, repoVars, retErr>>
  /\ Timely

(***************************************************************************)
(* migrateOrgAndRepos: the repository listing and loop; MigrateNewRepo.    *)
(***************************************************************************)
ListRepos ==
  /\ pc = "listRepos"
  /\ \E f \in WriteFaults, n \in 0..MaxRepos :
       LET name == Deref(Deref(ghOrg).Login)
       IN /\ Exact(<<f>>, Used(f))
          /\ calls' = Append(calls, Call("gh.ListByOrg", [org |-> name], ~GhFails(name, f)))
          /\ IF GhFails(name, f)
             THEN n = 0 /\ pc' = "done" /\ retErr' = PlainError /\ ghRepos' = ghRepos
             ELSE pc' = "repo" /\ retErr' = retErr /\ ghRepos' = Prefix(RepoPool, n)
  /\ r' = 1
  /\ UNCHANGED <<gw, ver, cfg, gt, rosterVars, authVars, orgVars, attempted>>
  /\ Timely

\* the collaborator loop of MigrateNewRepo (migrate.go), from entry k on
RECURSIVE CollaboratorLoop(_, _, _, _, _, _)
CollaboratorLoop(g, opts, entries, fc, k, acc) ==
  IF k > Len(entries) THEN [acc EXCEPT !.gt = g]
  ELSE LET e == entries[k]
           login == FromPtr(e.Login, "")
           cGet == Call("gh.GetUser", [user |-> login], fc[k][1] = "none")
           prof == GhProfile(login)
           add == AddCollaborator(g, opts.Owner, opts.Name, Deref(prof.Login),
                                  prof.Permissions, fc[k][2])
       IN IF IsNil(e.Type)
          THEN [acc EXCEPT !.gt = g, !.crash = TRUE]
          ELSE IF Deref(e.Type) # "User"
               THEN CollaboratorLoop(g, opts, entries, fc, k + 1, acc)
               ELSE IF fc[k][1] # "none"
                    \* GetUser returned nil: ghUser.Login in the log statement panics
                    THEN [acc EXCEPT !.gt = g, !.calls = @ \o <<cGet>>, !.nf = @ + 1,
                                     !.crash = TRUE]
                    ELSE CollaboratorLoop(add.gt, opts, entries, fc, k + 1,
                           [acc EXCEPT !.calls = @ \o <<cGet>> \o add.calls,
                                       !.nf = @ + Used(fc[k][2])])

\* a migration that lists the collaborators whether or not the import succeeded
MigrateNewRepoListAlways(g, opts, fMig, fList, fc) ==
  LET mr == MigrateRepo(g, [RepoName |-> opts.Name, RepoOwner |-> opts.Owner,
                            CloneAddr |-> opts.CloneAddr, Private |-> opts.Private,
                            Description |-> opts.Description,
                            AuthUsername |-> opts.AuthUsername,
                            AuthToken |-> opts.AuthToken], fMig)
      nfm == IF Len(mr.calls) > 0 THEN Used(fMig) ELSE 0
      cList == Call("gh.ListCollaborators", [owner |-> opts.Owner, repo |-> opts.Name],
                    ~GhFails(opts.Owner, fList))
      loop == CollaboratorLoop(mr.gt, opts, RepoCollaborators(opts.Name), fc, 1,
                               [gt |-> mr.gt, calls |-> <<>>, nf |-> 0, crash |-> FALSE])
  IN IF ver = 2
     THEN [gt |-> mr.gt, calls |-> mr.calls, nf |-> nfm, crash |-> FALSE, err |-> mr.err]
          ELSE IF GhFails(opts.Owner, fList)
               THEN [gt |-> mr.gt, calls |-> mr.calls \o <<cList>>,
                     nf |-> nfm + Used(fList), crash |-> FALSE, err |-> PlainError]
               ELSE [gt |-> loop.gt, calls |-> mr.calls \o <<cList>> \o loop.calls,
                     nf |-> nfm + loop.nf, crash |-> loop.crash, err |-> Nil]

MigrateNewRepo(g, opts, fMig, fList, fc) ==
  LET mr == MigrateRepo(g, [RepoName |-> opts.Name, RepoOwner |-> opts.Owner,
                            CloneAddr |-> opts.CloneAddr, Private |-> opts.Private,
                            Description |-> opts.Description,
                            AuthUsername |-> opts.AuthUsername,
                            AuthToken |-> opts.AuthToken], fMig)
      nfm == IF Len(mr.calls) > 0 THEN Used(fMig) ELSE 0
      cList == Call("gh.ListCollaborators", [owner |-> opts.Owner, repo |-> opts.Name],
                    ~GhFails(opts.Owner, fList))
      loop == CollaboratorLoop(mr.gt, opts, RepoCollaborators(opts.Name), fc, 1,
                               [gt |-> mr.gt, calls |-> <<>>, nf |-> 0, crash |-> FALSE])
  IN IF ~IsNil(mr.err)
     THEN [gt |-> mr.gt, calls |-> mr.calls, nf |-> nfm, crash |-> FALSE, err |-> mr.err]
     ELSE IF ver = 2
          THEN [gt |-> mr.gt, calls |-> mr.calls, nf |-> nfm, crash |-> FALSE, err |-> Nil]
          ELSE IF GhFails(opts.Owner, fList)
               THEN [gt |-> mr.gt, calls |-> mr.calls \o <<cList>>,
                     nf |-> nfm + Used(fList), crash |-> FALSE, err |-> PlainError]
               ELSE [gt |-> loop.gt, calls |-> mr.calls \o <<cList>> \o loop.calls,
                     nf |-> nfm + loop.nf, crash |-> loop.crash, err |-> Nil]

\* options that leave the description out
MigrateNewRepoOptionNoDescription(repo) ==
  [Owner |-> FromPtr(Deref(repo.Owner).Login, ""),
   Name |-> FromPtr(repo.Name, ""),
   CloneAddr |-> FromPtr(repo.CloneURL, ""),
   Description |-> "",
   Private |-> FromPtr(repo.Private, FALSE),
   AuthUsername |-> FromPtr(Deref(ghUser).Login, ""),
   AuthToken |-> cfg.GHToken]

\* the options the repository loop of main builds for one listed repository
MigrateNewRepoOption(repo) ==
  [Owner |-> FromPtr(Deref(repo.Owner).Login, ""),
   Name |-> FromPtr(repo.Name, ""),
   CloneAddr |-> FromPtr(repo.CloneURL, ""),
   Description |-> FromPtr(repo.Description, ""),
   Private |-> FromPtr(repo.Private, FALSE),
   AuthUsername |-> FromPtr(Deref(ghUser).Login, ""),
   AuthToken |-> cfg.GHToken]

Repo ==
  /\ pc = "repo"
  /\ IF r > Len(ghRepos)
     THEN /\ pc' = PhaseAfter("repo")
          /\ UNCHANGED <<gt, calls, faults, r, attempted>>
     ELSE LET repo == ghRepos[r]
              opts == MigrateNewRepoOption(repo)
              cols == RepoCollaborators(opts.Name)
          IN \E fMig \in WriteFaults, fList \in WriteFaults,
                fc \in [1..Len(cols) -> WriteFaults \X WriteFaults] :
               LET st == MigrateNewRepo(gt, opts, fMig, fList, fc)
               IN /\ Exact(<<fMig, fList>> \o Flatten(fc), st.nf)
                  /\ gt' = st.gt
                  /\ calls' = calls \o st.calls
                  /\ attempted' = Append(attempted,
                        [name |-> opts.Name, failed |-> ~IsNil(st.err), crash |-> st.crash])
                  /\ r' = r + 1
                  /\ pc' = IF st.crash THEN "crashed" ELSE pc
  /\ UNCHANGED <<gw, ver, cfg, rosterVars, authVars, orgVars, ghRepos, retErr>>
  /\ Timely

Next ==
  \/ Main
  \/ RosterUser
  \/ Authenticate
  \/ GetSourceOrg
  \/ CreateOrg
  \/ SearchOwners
  \/ ListMembers
  \/ Member
  \/ ListTeams
  \/ Team
  \/ ListRepos
  \/ Repo

Spec == Init /\ [][Next]_vars

(***************************************************************************)
(* The Target Gateway on its own: a caller invokes the create-or-reuse     *)
(* methods one after the other against one destination.                    *)
(***************************************************************************)
MaxGwCalls == 2

InitGw ==
  /\ pc = "gateway"
  /\ ver = 2
  /\ cfg = [SourceOrg |-> SourceOrgName, TargetOrg |-> OtherOrgName,
            UserListFile |-> "", GTSourceID |-> 7, GHToken |-> SourceToken,
            Deadline |-> 0]
  /\ gt \in {EmptyGitea, SeededGitea(OtherOrgName)}
  /\ calls = <<>>
  /\ faults = 0
  /\ users = <<>> /\ u = 1 /\ keyStats = <<>>
  /\ ghUser = Nil /\ gtUser = Nil /\ ghOrg = Nil
  /\ org = Nil /\ ownerTeam = Nil /\ ghUsers = <<>> /\ admins = <<>>
  /\ ghTeams = <<>> /\ repoTeams = EmptyFn /\ i = 1 /\ t = 1
  /\ ghRepos = <<>> /\ r = 1 /\ attempted = <<>>
  /\ retErr = Nil
  /\ gw = <<>>

\* the CreateOrgOption, CreateUserOption and CreateTeamOption values tried
GwOrgInputs ==
  {[Name |-> n, Description |-> "new", Visibility |-> VisibleTypePublic] :
     n \in {OtherOrgName, "fresh"}}
GwUserInputs ==
  {[SourceID |-> cfg.GTSourceID, LoginName |-> n, Username |-> n, FullName |-> "New Name",
    Email |-> "new@x"] : n \in {"alice", "bob", "carol"}}
GwTeamInputs ==
  {[org |-> OtherOrgName, opts |-> [Name |-> n, Description |-> "", Permission |-> p]] :
     n \in {<<"a">>, <<"b">>}, p \in {GitHubTeamPush, GitHubTeamAdmin, GitHubTeamTriager}}

\* one invocation: the destination moves on and the invocation is recorded
GwCall(op, arg, f1, f2, res) ==
  /\ pc = "gateway"
  /\ Len(gw) < MaxGwCalls
  /\ Exact(<<f1, f2>>, GwUsed(res, f1, f2))
  /\ gt' = res.gt
  /\ calls' = calls \o res.calls
  /\ gw' = Append(gw, [op |-> op, arg |-> arg, f1 |-> f1, f2 |-> f2,
                       val |-> res.val, err |-> res.err, calls |-> res.calls,
                       before |-> gt, after |-> res.gt])
  /\ UNCHANGED <<pc, ver, cfg, rosterVars, authVars, orgVars, repoVars, retErr>>

GwCreateAndGetOrg ==
  \E arg \in GwOrgInputs, f1 \in ReadFaults, f2 \in WriteFaults :
    GwCall("org", arg, f1, f2, CreateAndGetOrg(gt, arg, f1, f2))

GwCreateOrGetUser ==
  \E arg \in GwUserInputs, f1 \in ReadFaults, f2 \in WriteFaults :
    GwCall("user", arg, f1, f2, CreateOrGetUser(gt, arg, f1, f2))

GwCreateOrGetTeam ==
  \E arg \in GwTeamInputs, f1 \in WriteFaults, f2 \in WriteFaults :
    GwCall("team", arg, f1, f2, CreateOrGetTeam(gt, arg.org, arg.opts, f1, f2))

NextGw ==
  \/ GwCreateAndGetOrg
  \/ GwCreateOrGetUser
  \/ GwCreateOrGetTeam

SpecGw == InitGw /\ [][NextGw]_vars

(***************************************************************************)
(* Properties of a run (specification Spec).                               *)
(***************************************************************************)
Ended == pc \in {"done", "crashed"}
Called(api) == \E k \in DOMAIN calls : calls[k].api = api
ListedNames == [k \in DOMAIN ghRepos |-> FromPtr(ghRepos[k].Name, "")]
AttemptedNames == [k \in DOMAIN attempted |-> attempted[k].name]
DestinationWrites ==
  {"gt.CreateOrg", "gt.AdminCreateUser", "gt.CreateTeam", "gt.AddTeamMember",
   "gt.CreateUserPublicKey", "gt.AddCollaborator", "gt.MigrateRepo"}
OrgTeamCalls ==
  {"gt.GetOrg", "gt.CreateOrg", "gt.SearchOrgTeams", "gt.CreateTeam", "gt.AddTeamMember"}

\* C1: per-repository fault isolation.  When the run has ended, repository
\* migration was invoked exactly once for every entry of the repository
\* listing, in listing order, whatever the outcome of the earlier ones.
C1_EveryRepoAttemptedOnce == Ended => AttemptedNames = ListedNames

\* the run died inside the first of two listed repositories
C1_RunDiedInRepo ==
  pc = "crashed" /\ Len(ghRepos) = 2 /\ Len(attempted) = 1 /\ attempted[1].crash

\* C2: authentication precedes every destination write.  A create-organization,
\* create-user, create-team, add-team-member, add-public-key, add-collaborator
\* or migrate-repository call has been issued only if both current-user
\* fetches have succeeded, also when a roster file is supplied.
C2_AuthBeforeWrites ==
  (\E k \in DOMAIN calls : calls[k].api \in DestinationWrites)
    => (~IsNil(ghUser) /\ ~IsNil(gtUser))

\* a roster user was created on the destination before any current-user fetch
C2_RosterWriteBeforeAuth ==
  /\ pc = "roster"
  /\ \E k \in DOMAIN calls : calls[k].api = "gt.AdminCreateUser" /\ calls[k].ok
  /\ ~Called("gh.GetCurrentUser")

\* C3: only the fatal failures stop a run before the repositories.  When the
\* run has ended and authentication, the source organization fetch and the
\* destination organization create-or-reuse have succeeded, the repositories
\* were listed and every listed repository was attempted, whatever failed
\* while listing or replicating members and teams.
C3_OnlyFatalFailuresStop ==
  (Ended /\ ~IsNil(org)) => (Called("gh.ListByOrg") /\ AttemptedNames = ListedNames)

\* the member listing failed and the run ended without listing a repository
C3_MemberListingStoppedRun ==
  /\ pc = "done" /\ ~IsNil(org) /\ ~Called("gh.ListByOrg")
  /\ calls[Len(calls)].api = "gh.ListOrgUsers" /\ ~calls[Len(calls)].ok

\* C4: per-member fault isolation.  When the run has ended and the member
\* listing had succeeded, every listed member was processed and CreateNewOrg
\* went on to the team phase, whatever failed for a single member (profile
\* fetch, user create-or-reuse, role fetch).
C4_MemberFailuresIsolated ==
  (Ended /\ ghUsers # <<>>) => (i = Len(ghUsers) + 1 /\ Called("gh.ListTeams"))

\* the profile fetch of the first member failed and the run died there
C4_RunDiedInMember ==
  /\ pc = "crashed" /\ ghUsers # <<>> /\ i <= Len(ghUsers)
  /\ calls[Len(calls)].api = "gh.GetUser" /\ ~calls[Len(calls)].ok

\* the calls one step appended to the log
NewCalls == SubSeq(calls', Len(calls) + 1, Len(calls'))
\* the member additions among them, in order
RECURSIVE AddedMembers(_)
AddedMembers(cs) ==
  IF cs = <<>> THEN <<>>
  ELSE IF Head(cs).api = "gt.AddTeamMember"
       THEN <<Head(cs).args.user>> \o AddedMembers(Tail(cs))
       ELSE AddedMembers(Tail(cs))

\* what one step of the team phase does, whatever fails in it
TeamStepIsolated ==
  pc = "team" =>
    /\ retErr' = Nil
    /\ IF t <= Len(ghTeams)
       THEN /\ pc' = "team" /\ t' = t + 1
            /\ (\E k \in DOMAIN NewCalls :
                   NewCalls[k].api = "gh.ListTeamMembersBySlug" /\ NewCalls[k].ok)
                 => AddedMembers(NewCalls) = TeamMembers(Deref(ghTeams[t].Slug))
       ELSE pc' = PhaseAfter("team")

\* C5: per-team fault isolation.  Every step of the team phase moves on to
\* the next team without an error of CreateNewOrg, whatever failed for the
\* team (repository listing, create-or-reuse, member listing, one member
\* addition); once the member listing of a team succeeded, an addition is
\* attempted for every listed member, in order, also after a failed one; after
\* the last team CreateNewOrg returns its result.
C5_TeamFailuresIsolated == [][TeamStepIsolated]_vars

\* the team phase is over, and in it an addition failed and a later member
\* of the same team was still added
C5_LaterMemberStillAdded ==
  /\ pc = "listRepos" /\ retErr = Nil
  /\ \E j, k \in DOMAIN calls :
       /\ j < k
       /\ calls[j].api = "gt.AddTeamMember" /\ ~calls[j].ok
       /\ calls[k].api = "gt.AddTeamMember" /\ calls[k].ok
       /\ calls[k].args.id = calls[j].args.id

\* C6: ordering of phases.  No organization or team call (organization
\* lookup or creation, team search or creation, team-member addition) is
\* issued after a repository migration call.
C6_OrgAndTeamsBeforeRepos ==
  \A j, k \in DOMAIN calls :
    (j < k /\ calls[j].api = "gt.MigrateRepo") => calls[k].api \notin OrgTeamCalls

\* a run that created the organization and a team, added a member to it and
\* then migrated a repository
C6_TeamsThenRepos ==
  \E a, b, c, d \in DOMAIN calls :
    /\ a < b /\ b < c /\ c < d
    /\ calls[a].api = "gt.CreateOrg" /\ calls[a].ok
    /\ calls[b].api = "gt.CreateTeam" /\ calls[b].ok
    /\ calls[c].api = "gt.AddTeamMember" /\ calls[c].ok
    /\ calls[d].api = "gt.MigrateRepo" /\ calls[d].ok

(***************************************************************************)
(* Properties of the Target Gateway (specification SpecGw).                *)
(***************************************************************************)
CreationCalls == {"gt.CreateOrg", "gt.AdminCreateUser", "gt.CreateTeam"}
\* how many calls of one invocation went to the API
Issued(rec, api) == Cardinality({k \in DOMAIN rec.calls : rec.calls[k].api = api})
\* the lookup of the invocation was answered, and how
OrgFound(rec) == rec.f1 = "none" /\ rec.arg.Name \in DOMAIN rec.before.orgs
OrgAbsent(rec) == rec.f1 = "none" /\ rec.arg.Name \notin DOMAIN rec.before.orgs
UserFound(rec) == rec.f1 = "none" /\ rec.arg.Username \in DOMAIN rec.before.users
UserAbsent(rec) == rec.f1 = "none" /\ rec.arg.Username \notin DOMAIN rec.before.users

\* C7: create-or-reuse organization.  A create-organization call is issued
\* if and only if the lookup reported not-found, and then once; a found
\* organization is returned as the destination holds it, with the lookup as
\* the only call and the destination unchanged; a lookup that failed
\* otherwise (another status, no response) gives an error, no organization
\* and no create call.
C7_OrgCreatedIffNotFound ==
  \A k \in DOMAIN gw :
    gw[k].op = "org" =>
      LET rec == gw[k]
      IN /\ Issued(rec, "gt.CreateOrg") = IF OrgAbsent(rec) THEN 1 ELSE 0
         /\ Issued(rec, "gt.GetOrg") = 1 /\ rec.calls[1].api = "gt.GetOrg"
         /\ OrgFound(rec) =>
              /\ rec.err = Nil
              /\ rec.val = Ptr(OrgValue(rec.before, rec.arg.Name))
              /\ Len(rec.calls) = 1
              /\ rec.after = rec.before
         /\ rec.f1 # "none" =>
              /\ rec.err # Nil /\ rec.val = Nil
              /\ Len(rec.calls) = 1
              /\ rec.after = rec.before

\* one invocation created the organization after a not-found lookup, and one
\* met a lookup failure with another status
C7_CreatedAndRefused ==
  \E j, k \in DOMAIN gw :
    /\ gw[j].op = "org" /\ OrgAbsent(gw[j]) /\ gw[j].err = Nil
    /\ gw[j].arg.Name \in DOMAIN gw[j].after.orgs
    /\ gw[k].op = "org" /\ gw[k].f1 = "e500" /\ gw[k].err # Nil

\* C8: idempotence of create-or-reuse.  Of two invocations in a row of the
\* same method with the same input, the first returning no error, the second
\* issues no creation call and, returning no error either, returns the same
\* destination entity.
C8_SecondCallReuses ==
  \A k \in DOMAIN gw :
    (k + 1 \in DOMAIN gw /\ gw[k + 1].op = gw[k].op /\ gw[k + 1].arg = gw[k].arg
       /\ gw[k].err = Nil)
      => /\ \A c \in DOMAIN gw[k + 1].calls : gw[k + 1].calls[c].api \notin CreationCalls
         /\ gw[k + 1].err = Nil => gw[k + 1].val = gw[k].val

\* CreateOrGetUser returned no user and no error, and the same invocation
\* repeated created the account
C8_SecondCallCreated ==
  /\ Len(gw) = 2
  /\ gw[1].op = "user" /\ gw[2].op = "user" /\ gw[2].arg = gw[1].arg
  /\ gw[1].err = Nil /\ gw[1].val = Nil
  /\ Issued(gw[2], "gt.AdminCreateUser") = 1 /\ gw[2].val # Nil

\* C9: create-or-reuse user.  The first call is the lookup by username; an
\* admin-create-user call is issued only after a lookup that reported the
\* user absent, and it carries must-change-password false; a found user is
\* returned as the destination holds it, with the lookup as the only call;
\* an account that existed keeps its attributes.
C9_UserLookupThenCreate ==
  \A k \in DOMAIN gw :
    gw[k].op = "user" =>
      LET rec == gw[k]
          name == rec.arg.Username
      IN /\ rec.calls # <<>>
         /\ rec.calls[1].api = "gt.GetUserInfo" /\ rec.calls[1].args.user = name
         /\ \A c \in DOMAIN rec.calls :
              /\ rec.calls[c].api \in {"gt.GetUserInfo", "gt.AdminCreateUser"}
              /\ rec.calls[c].api = "gt.AdminCreateUser" =>
                   /\ c = 2 /\ UserAbsent(rec)
                   /\ rec.calls[c].args.MustChangePassword = FALSE
         /\ name \in DOMAIN rec.after.users /\ name \notin DOMAIN rec.before.users =>
              rec.after.users[name].mustChangePassword = FALSE
         /\ UserFound(rec) =>
              /\ rec.err = Nil
              /\ rec.val = Ptr(UserValue(rec.before, name))
              /\ Len(rec.calls) = 1
         /\ name \in DOMAIN rec.before.users => rec.after = rec.before

\* one invocation created an account, and one returned an existing account
\* whose attributes differ from the input
C9_CreatedAndReused ==
  \E j, k \in DOMAIN gw :
    /\ gw[j].op = "user" /\ UserAbsent(gw[j]) /\ gw[j].err = Nil
    /\ gw[j].arg.Username \in DOMAIN gw[j].after.users
    /\ gw[k].op = "user" /\ UserFound(gw[k]) /\ gw[k].val # Nil
    /\ Deref(gw[k].val).FullName # gw[k].arg.FullName

\* C10: team lookup-or-create is keyed by the name within the organization.
\* A team CreateOrGetTeam returns belongs to the organization asked for and
\* has exactly the requested name, reused or created.
C10_TeamKeyedByName ==
  \A k \in DOMAIN gw :
    (gw[k].op = "team" /\ gw[k].val # Nil) =>
      /\ Deref(gw[k].val).Org = gw[k].arg.org
      /\ Deref(gw[k].val).Name = gw[k].arg.opts.Name

\* asked for team "a", the gateway returned the existing team "a_"
C10_OtherTeamReturned ==
  \E k \in DOMAIN gw :
    /\ gw[k].op = "team" /\ gw[k].err = Nil
    /\ gw[k].arg.opts.Name = <<"a">>
    /\ Deref(gw[k].val).Name = <<"a", "_">>
    /\ Issued(gw[k], "gt.CreateTeam") = 0

(***************************************************************************)
(* Single operations: one run applies one operation of the program to an   *)
(* input drawn from a bounded set and records the input and the result.    *)
(***************************************************************************)
MaxNameLen == 3

\* characters of team names: letters, a digit, the three allowed signs, and
\* characters invalidCharsRegex matches
NameChars == {"a", "Z", "9", ".", "-", "_", "/", "!", " "}
TeamNames == UNION {[1..n -> NameChars] : n \in 0..MaxNameLen}

InitOps ==
  /\ pc = "ops"
  /\ ver \in {1, 2}
  /\ cfg = [SourceOrg |-> SourceOrgName, TargetOrg |-> SourceOrgName,
            UserListFile |-> "", GTSourceID |-> 7, GHToken |-> SourceToken,
            Deadline |-> 0]
  /\ gt \in {EmptyGitea, SeededGitea(SourceOrgName)}
  /\ calls = <<>>
  /\ faults = 0
  /\ users = <<>> /\ u = 1 /\ keyStats = <<>>
  /\ ghUser = Nil /\ gtUser = Nil /\ ghOrg = Nil
  /\ org = Nil /\ ownerTeam = Nil /\ ghUsers = <<>> /\ admins = <<>>
  /\ ghTeams = <<>> /\ repoTeams = EmptyFn /\ i = 1 /\ t = 1
  /\ ghRepos = <<>> /\ r = 1 /\ attempted = <<>>
  /\ retErr = Nil
  /\ gw = <<>>

\* the operation is applied once: its result is recorded and the run is over
OpDone(op, arg, res, nf) ==
  /\ pc = "ops"
  /\ pc' = "opsDone"
  /\ faults + nf <= MaxFaults
  /\ faults' = faults + nf
  /\ gt' = res.gt
  /\ calls' = calls \o res.calls
  /\ gw' = <<[op |-> op, arg |-> arg, res |-> res, before |-> gt]>>
  /\ UNCHANGED <<ver, cfg, rosterVars, authVars, orgVars, repoVars, retErr>>

\* sanitizedTeamName := invalidCharsRegex.ReplaceAllString(name, "_")
OpSanitize ==
  /\ pc = "ops"
  /\ \E name \in TeamNames :
       /\ Len(name) <= MaxNameLen
       /\ OpDone("sanitize", name, [gt |-> gt, calls |-> <<>>, val |-> Sanitize(name)], 0)

\* the source team permission tokens tried: the five of pkg/core, the token
\* GitHub reports for the triage role, and an unknown one
TeamTokens ==
  {GitHubTeamPull, GitHubTeamPush, GitHubTeamAdmin, GitHubTeamMaintain, GitHubTeamTriager,
   "triage", "owner"}

OpCreateOrGetTeam ==
  /\ pc = "ops"
  /\ \E p \in TeamTokens, f1 \in WriteFaults, f2 \in WriteFaults :
       LET arg == [org |-> SourceOrgName,
                   opts |-> [Name |-> <<"b">>, Description |-> "", Permission |-> p]]
           res == CreateOrGetTeam(gt, arg.org, arg.opts, f1, f2)
       IN /\ FaultCount(<<f1, f2>>) = GwUsed(res, f1, f2)
          /\ OpDone("team", arg, res, GwUsed(res, f1, f2))

\* the permission bundles tried: every assignment of flags to a subset of
\* the keys; the empty one is the absent (nil) map
BundleKeys == {GitHubTeamAdmin, GitHubTeamMaintain, GitHubTeamPush, GitHubTeamPull, "triage"}
Bundles == UNION {[S -> BOOLEAN] : S \in SUBSET BundleKeys}

OpAddCollaborator ==
  /\ pc = "ops"
  /\ \E b \in Bundles, f \in WriteFaults :
       LET arg == [org |-> SourceOrgName, repo |-> "r1", user |-> "alice", permission |-> b]
           res == AddCollaborator(gt, arg.org, arg.repo, arg.user, b, f)
       IN /\ DOMAIN b \subseteq BundleKeys
          /\ OpDone("collaborator", arg, res, Used(f))

OpMigrateRepo ==
  /\ pc = "ops"
  /\ \E name \in {"", "r1"}, owner \in {"", SourceOrgName}, addr \in {"", "https://gh/acme/r1.git"},
        private \in BOOLEAN, desc \in {"", "about"}, f \in WriteFaults :
       LET arg == [RepoName |-> name, RepoOwner |-> owner, CloneAddr |-> addr,
                   Private |-> private, Description |-> desc,
                   AuthUsername |-> CurrentLogin, AuthToken |-> SourceToken]
           res == MigrateRepo(gt, arg, f)
       IN /\ Used(f) = (IF Len(res.calls) > 0 THEN Used(f) ELSE 0)
          /\ OpDone("migrate", arg, res, Used(f))

OpMigrateNewRepo ==
  /\ pc = "ops"
  /\ \E name \in {"r1", "r2", "r3"}, fMig \in WriteFaults, fList \in WriteFaults :
       \E fc \in [1..Len(RepoCollaborators(name)) -> WriteFaults \X WriteFaults] :
         LET arg == [Owner |-> SourceOrgName, Name |-> name,
                     CloneAddr |-> "https://gh/acme/repo.git", Description |-> "",
                     Private |-> TRUE, AuthUsername |-> CurrentLogin,
                     AuthToken |-> SourceToken]
             res == MigrateNewRepo(gt, arg, fMig, fList, fc)
         IN /\ FaultCount(<<fMig, fList>> \o Flatten(fc)) = res.nf
            /\ OpDone("newRepo", arg, res, res.nf)

(***************************************************************************)
(* The list operations of the source reader (paginatedFetch).              *)
(***************************************************************************)
MaxPages == 3
MaxPerPage == 1
Entities == {"x", "y"}

\* what the source holds for one listing: the items of each of its pages
PageListings ==
  UNION {[1..n -> UNION {[1..m -> Entities] : m \in 0..MaxPerPage}] : n \in 1..MaxPages}

\* fetch(page): the items, the response and the error of one page request.
\* Every page but the last names its successor; failing is the page whose
\* request fails (0 for none); lastResp tells whether the last page comes
\* with a response
Fetch(src, page) ==
  IF page = src.failing
  THEN [items |-> <<>>, resp |-> Nil, err |-> PlainError]
  ELSE IF page \notin DOMAIN src.pages
       THEN [items |-> <<>>, resp |-> Ptr([NextPage |-> 0]), err |-> Nil]
       ELSE [items |-> src.pages[page],
             resp |-> IF page < Len(src.pages) THEN Ptr([NextPage |-> page + 1])
                      ELSE IF src.lastResp THEN Ptr([NextPage |-> 0]) ELSE Nil,
             err |-> Nil]

\* a loop that returns after its first page
RECURSIVE PaginatedFetchFirstPage(_, _, _, _)
PaginatedFetchFirstPage(src, page, allItems, cs) ==
  LET f == Fetch(src, page)
      c == Call("gh.ListPage", [page |-> page], IsNil(f.err))
  IN IF ~IsNil(f.err)
     THEN [val |-> Nil, err |-> f.err, calls |-> Append(cs, c)]
     ELSE [val |-> allItems \o f.items, err |-> Nil, calls |-> Append(cs, c)]

\* a loop that hands out what it has gathered when a page fails
RECURSIVE PaginatedFetchPartial(_, _, _, _)
PaginatedFetchPartial(src, page, allItems, cs) ==
  LET f == Fetch(src, page)
      c == Call("gh.ListPage", [page |-> page], IsNil(f.err))
  IN IF ~IsNil(f.err)
     THEN [val |-> allItems, err |-> f.err, calls |-> Append(cs, c)]
     ELSE IF IsNil(f.resp) \/ Deref(f.resp).NextPage = 0
          THEN [val |-> allItems \o f.items, err |-> Nil, calls |-> Append(cs, c)]
          ELSE PaginatedFetchPartial(src, Deref(f.resp).NextPage,
                                     allItems \o f.items, Append(cs, c))

\* the loop of paginatedFetch from the given page on
RECURSIVE PaginatedFetch(_, _, _, _)
PaginatedFetch(src, page, allItems, cs) ==
  LET f == Fetch(src, page)
      c == Call("gh.ListPage", [page |-> page], IsNil(f.err))
  IN IF ~IsNil(f.err)
     THEN [val |-> Nil, err |-> f.err, calls |-> Append(cs, c)]
     ELSE IF IsNil(f.resp) \/ Deref(f.resp).NextPage = 0
          THEN [val |-> allItems \o f.items, err |-> Nil, calls |-> Append(cs, c)]
          ELSE PaginatedFetch(src, Deref(f.resp).NextPage,
                              allItems \o f.items, Append(cs, c))

\* one list operation: paginatedFetch starts with an empty result at page 1
OpPaginatedFetch ==
  /\ pc = "ops"
  /\ \E pages \in PageListings, lastResp \in BOOLEAN :
       \E failing \in 0..Len(pages) :
         LET src == [pages |-> pages, failing |-> failing, lastResp |-> lastResp]
             out == PaginatedFetch(src, 1, <<>>, <<>>)
             res == [gt |-> gt, calls |-> out.calls, val |-> out.val, err |-> out.err]
         IN /\ Len(pages) <= MaxPages
            /\ OpDone("list", src, res, IF IsNil(out.err) THEN 0 ELSE 1)

(***************************************************************************)
(* main: the checks of the configuration before the clients are created.   *)
(***************************************************************************)
MaxTimeoutLen == 3
TimeoutDigits == {"0", "1"}
TimeoutChars == TimeoutDigits \cup {".", "-", "m", "s"}
\* the values of the timeout option
Timeouts == UNION {[1..n -> TimeoutChars] : n \in 0..MaxTimeoutLen}
\* the units of time.ParseDuration that can be written with these characters
DurationUnits == {<<"m">>, <<"s">>, <<"m", "s">>}

\* the number of leading characters of s that are (digit = TRUE) or are not
\* (digit = FALSE) part of a number
RECURSIVE Leading(_, _)
Leading(s, digit) ==
  IF s = <<>> THEN 0
  ELSE IF digit /\ s[1] \in TimeoutDigits THEN 1 + Leading(Tail(s), digit)
  ELSE IF ~digit /\ s[1] \notin TimeoutDigits \cup {"."} THEN 1 + Leading(Tail(s), digit)
  ELSE 0

Drop(s, n) == SubSeq(s, n + 1, Len(s))

\* the loop of time.ParseDuration over number-unit pairs; TRUE when the
\* whole string is consumed without error
RECURSIVE DurationPairs(_)
DurationPairs(s) ==
  IF s = <<>> THEN TRUE
  ELSE IF s[1] \notin TimeoutDigits \cup {"."} THEN FALSE
  ELSE LET pre == Leading(s, TRUE)
           s1 == Drop(s, pre)
           dot == s1 # <<>> /\ s1[1] = "."
           s2 == IF dot THEN Tail(s1) ELSE s1
           post == IF dot THEN Leading(s2, TRUE) ELSE 0
           s3 == Drop(s2, post)
           ul == Leading(s3, FALSE)
       IN IF pre = 0 /\ post = 0 THEN FALSE
          ELSE IF ul = 0 THEN FALSE
          ELSE IF SubSeq(s3, 1, ul) \notin DurationUnits THEN FALSE
          ELSE DurationPairs(Drop(s3, ul))

\* a parser that takes a bare number for a duration
ParseDurationBareNumber(str) ==
  LET s == IF str # <<>> /\ str[1] = "-" THEN Tail(str) ELSE str
  IN IF s = <<"0">> THEN Nil
     ELSE IF s = <<>> THEN PlainError
     ELSE IF Leading(s, TRUE) = Len(s) \/ DurationPairs(s) THEN Nil ELSE PlainError

\* the error of time.ParseDuration(cfg.APITimeout)
ParseDuration(str) ==
  LET s == IF str # <<>> /\ str[1] = "-" THEN Tail(str) ELSE str
  IN IF s = <<"0">> THEN Nil
     ELSE IF s = <<>> THEN PlainError
     ELSE IF DurationPairs(s) THEN Nil ELSE PlainError

\* a check that does not look at the target organization
IsVaildNoTarget(c) ==
  IF c.GHToken = "" THEN PlainError
  ELSE IF c.GTToken = "" THEN PlainError
  ELSE IF c.SourceOrg = "" THEN PlainError
  ELSE Nil

\* cfg.IsVaild()
IsVaild(c) ==
  IF c.GHToken = "" THEN PlainError
  ELSE IF c.GTToken = "" THEN PlainError
  ELSE IF c.SourceOrg = "" THEN PlainError
  ELSE IF c.TargetOrg = "" THEN PlainError
  ELSE Nil

\* main up to createClients: val tells where it got to
OpMain ==
  /\ pc = "ops"
  /\ \E ghToken \in {"", SourceToken}, gtToken \in {"", "gt-token"},
        src \in {"", SourceOrgName}, dst \in {"", OtherOrgName}, timeout \in Timeouts :
       LET arg == [GHToken |-> ghToken, GTToken |-> gtToken, SourceOrg |-> src,
                   TargetOrg |-> dst, APITimeout |-> timeout]
           res == [gt |-> gt, calls |-> <<>>,
                   val |-> IF ~IsNil(IsVaild(arg)) THEN "invalid config"
                           ELSE IF ~IsNil(ParseDuration(timeout))
                                THEN "failed to parse timeout"
                                ELSE "createClients",
                   err |-> Nil]
       IN /\ Len(timeout) <= MaxTimeoutLen
          /\ OpDone("main", arg, res, 0)

(***************************************************************************)
(* readUserList: the roster file.                                          *)
(***************************************************************************)
MaxRows == 3
\* the column counts a row of the file may have
RowWidths == {4, 5}

\* row k of a roster file, cut to w columns
RosterRow(k, w) ==
  SubSeq(<<"2024", "id", ToString(k), "mail", "member">>, 1, w)

\* the files: a header and up to MaxRows data rows, each of its own width
RosterFiles ==
  UNION {[1..(n + 1) -> RowWidths] : n \in 0..MaxRows}

\* r := csv.NewReader(f); r.ReadAll(): FieldsPerRecord is left at 0, so the
\* reader takes the column count of the first record as the count every
\* record must have and fails on a record that differs
CsvReadAll(rows) ==
  IF \E k \in DOMAIN rows : Len(rows[k]) # Len(rows[1])
  THEN [records |-> <<>>, err |-> PlainError]
  ELSE [records |-> rows, err |-> Nil]

\* readUserList of a file with the given row widths
OpReadUserList ==
  /\ pc = "ops"
  /\ \E widths \in RosterFiles :
       LET rows == [k \in DOMAIN widths |->
                      IF k = 1 THEN SubSeq(RosterFile[1], 1, widths[1])
                      ELSE RosterRow(k - 1, widths[k])]
           all == CsvReadAll(rows)
           res == [gt |-> gt, calls |-> <<>>,
                   val |-> IF IsNil(all.err) THEN readUserList(all.records) ELSE Nil,
                   err |-> all.err]
       IN /\ Len(rows) <= MaxRows + 1
          /\ OpDone("roster", rows, res, 0)

\* the key loop of createUsersFromCSV for the two keys of alice; how each
\* upload ends is an input
OpKeyLoop ==
  /\ pc = "ops"
  /\ \E fk \in [1..Len(UserKeys("alice")) -> KeyFaults] :
       LET arg == [login |-> "alice", sshKeys |-> UserKeys("alice"), fk |-> fk]
           res == KeyLoop(gt, arg.login, arg.sshKeys, fk, 1,
                          [gt |-> gt, calls |-> <<>>, errs |-> <<>>,
                           success |-> 0, exists |-> 0, failed |-> 0])
       IN /\ Len(arg.sshKeys) = 2
          /\ OpDone("keys", arg, res, 0)

NextOps ==
  \/ OpPaginatedFetch
  \/ OpMain
  \/ OpReadUserList
  \/ OpKeyLoop
  \/ OpSanitize
  \/ OpCreateOrGetTeam
  \/ OpAddCollaborator
  \/ OpMigrateRepo
  \/ OpMigrateNewRepo

SpecOps == InitOps /\ [][NextOps]_vars

\* a whole run, or one operation on its own
SpecRun == (Init \/ InitOps) /\ [][Next \/ NextOps]_vars

(***************************************************************************)
(* Properties of single operations (specification SpecOps).                *)
(***************************************************************************)
\* the characters of [A-Za-z0-9._-]
SafeChars ==
  {"a", "b", "c", "d", "e", "f", "g", "h", "i", "j", "k", "l", "m", "n", "o", "p", "q",
   "r", "s", "t", "u", "v", "w", "x", "y", "z",
   "A", "B", "C", "D", "E", "F", "G", "H", "I", "J", "K", "L", "M", "N", "O", "P", "Q",
   "R", "S", "T", "U", "V", "W", "X", "Y", "Z",
   "0", "1", "2", "3", "4", "5", "6", "7", "8", "9", ".", "_", "-"}

\* C11: team-name sanitization.  The sanitized name has the length of the
\* source name, keeps every character of [A-Za-z0-9._-] at its position and
\* has "_" at every other position, so it holds only characters of that class.
C11_SanitizeOneForOne ==
  \A k \in DOMAIN gw :
    gw[k].op = "sanitize" =>
      LET name == gw[k].arg
          out == gw[k].res.val
      IN /\ Len(out) = Len(name)
         /\ \A j \in 1..Len(name) :
              /\ name[j] \in SafeChars => out[j] = name[j]
              /\ name[j] \notin SafeChars => out[j] = "_"
              /\ out[j] \in SafeChars

\* the name "a/!" was sanitized to "a__"
C11_MixedNameSanitized ==
  \E k \in DOMAIN gw :
    /\ gw[k].op = "sanitize"
    /\ gw[k].arg = <<"a", "/", "!">>
    /\ gw[k].res.val = <<"a", "_", "_">>

\* the destination level the specification gives for a recognized team token
TeamLevel(p) ==
  CASE p = "pull" -> "read"
    [] p = "push" -> "write"
    [] p = "maintain" -> "write"
    [] p = "admin" -> "admin"
RecognizedTokens == {"pull", "push", "maintain", "admin"}

\* C12: the team permission mapping is total and fixed on the recognized
\* tokens.  For pull, push, maintain and admin CreateOrGetTeam does not stop
\* at the permission (the team search is issued), every creation request
\* carries read, write, write and admin respectively, and a created team has
\* that level.
C12_TeamPermissionMapped ==
  \A k \in DOMAIN gw :
    (gw[k].op = "team" /\ gw[k].arg.opts.Permission \in RecognizedTokens) =>
      LET res == gw[k].res
          level == TeamLevel(gw[k].arg.opts.Permission)
      IN /\ res.calls # <<>> /\ res.calls[1].api = "gt.SearchOrgTeams"
         /\ \A c \in DOMAIN res.calls :
              res.calls[c].api = "gt.CreateTeam" =>
                /\ res.calls[c].args.opt.Permission = level
                /\ res.calls[c].ok => Deref(res.val).Permission = level

\* a team asked for with the maintain token was created with the write level
C12_MaintainTeamCreated ==
  \E k \in DOMAIN gw :
    /\ gw[k].op = "team" /\ gw[k].arg.opts.Permission = "maintain"
    /\ gw[k].res.err = Nil
    /\ Len(gw[k].res.calls) = 2 /\ gw[k].res.calls[2].ok
    /\ Deref(gw[k].res.val).Permission = "write"
    /\ Len(gt.teams) = Len(gw[k].before.teams) + 1

\* C13: an unsupported or unrecognized team permission token is refused
\* locally.  For every token other than pull, push, maintain and admin
\* CreateOrGetTeam returns an error and no team, issues no call to the
\* destination and leaves the destination unchanged.
C13_UnsupportedTokenRefused ==
  \A k \in DOMAIN gw :
    (gw[k].op = "team" /\ gw[k].arg.opts.Permission \notin RecognizedTokens) =>
      /\ gw[k].res.err # Nil /\ gw[k].res.val = Nil
      /\ gw[k].res.calls = <<>>
      /\ gw[k].res.gt = gw[k].before

\* for the token of core.GitHubTeamTriager the team search was issued and a
\* creation request carrying the token itself as the level was sent
C13_TriagerPassedThrough ==
  \E k \in DOMAIN gw :
    /\ gw[k].op = "team" /\ gw[k].arg.opts.Permission = GitHubTeamTriager
    /\ Len(gw[k].res.calls) = 2
    /\ gw[k].res.calls[1].api = "gt.SearchOrgTeams"
    /\ gw[k].res.calls[2].api = "gt.CreateTeam"
    /\ gw[k].res.calls[2].args.opt.Permission = GitHubTeamTriager

\* the flag is set in the bundle (an absent bundle or key reads false)
Flag(b, k) == k \in DOMAIN b /\ b[k]

\* C14: AddCollaborator takes the level from the highest flag set, in the
\* order admin, maintain, push, pull.  Admin set gives admin whatever else is
\* set; otherwise maintain set gives the level of maintain alone, whatever
\* push and pull say; otherwise push gives write; otherwise (pull, no
\* recognized flag, absent bundle) read.  Exactly one add-collaborator call is
\* issued, for the named organization, repository and user, with that level.
C14_HighestFlagDecides ==
  \A k \in DOMAIN gw :
    gw[k].op = "collaborator" =>
      LET b == gw[k].arg.permission
          cs == gw[k].res.calls
          level == cs[1].args.access
      IN /\ Len(cs) = 1 /\ cs[1].api = "gt.AddCollaborator"
         /\ cs[1].args.org = gw[k].arg.org
         /\ cs[1].args.repo = gw[k].arg.repo
         /\ cs[1].args.user = gw[k].arg.user
         /\ level = IF Flag(b, "admin") THEN "admin"
                    ELSE IF Flag(b, "maintain")
                         THEN CollaboratorAccess(("maintain" :> TRUE))
                         ELSE IF Flag(b, "push") THEN "write" ELSE "read"

\* a bundle with admin, push and pull set and maintain cleared was granted
\* the admin level
C14_AdminOverPush ==
  \E k \in DOMAIN gw :
    /\ gw[k].op = "collaborator"
    /\ gw[k].arg.permission =
         [f \in {"admin", "maintain", "push", "pull"} |-> f # "maintain"]
    /\ gw[k].res.calls[1].args.access = "admin"

\* C15: a collaborator whose highest source flag is maintain is granted
\* write (the destination has no level between write and admin), never admin
\* and never a level above admin such as owner.
C15_MaintainGrantsWrite ==
  \A k \in DOMAIN gw :
    (/\ gw[k].op = "collaborator"
     /\ ~Flag(gw[k].arg.permission, "admin")
     /\ Flag(gw[k].arg.permission, "maintain")) =>
      \A c \in DOMAIN gw[k].res.calls :
        gw[k].res.calls[c].api = "gt.AddCollaborator" =>
          gw[k].res.calls[c].args.access = AccessModeWrite

\* a bundle with only maintain set was granted the owner level
C15_MaintainGrantedOwner ==
  \E k \in DOMAIN gw :
    /\ gw[k].op = "collaborator"
    /\ gw[k].arg.permission = ("maintain" :> TRUE)
    /\ Len(gw[k].res.calls) = 1
    /\ gw[k].res.calls[1].args.access = AccessModeOwner

\* the entries of a collaborator listing whose principal type is "User"
UserEntries(entries) ==
  {j \in DOMAIN entries :
     ~IsNil(entries[j].Type) /\ Deref(entries[j].Type) = "User"}

\* the grant calls among the calls of one repository migration
GrantCalls(cs) == {c \in DOMAIN cs : cs[c].api = "gt.AddCollaborator"}

\* C16: when the collaborators of a migrated repository were listed and no
\* call failed, the loop runs to its end, a grant call is issued for each
\* entry of type "User" and for no other entry: an entry of another type or
\* without a type is skipped and the entries after it are still processed.
C16_OnlyUserEntriesGranted ==
  \A k \in DOMAIN gw :
    (/\ gw[k].op = "newRepo" /\ ver = 1 /\ gw[k].res.nf = 0
     /\ \E c \in DOMAIN gw[k].res.calls :
          gw[k].res.calls[c].api = "gh.ListCollaborators" /\ gw[k].res.calls[c].ok) =>
      LET entries == RepoCollaborators(gw[k].arg.Name)
          cs == gw[k].res.calls
      IN /\ ~gw[k].res.crash
         /\ Cardinality(GrantCalls(cs)) = Cardinality(UserEntries(entries))
         /\ \A c \in GrantCalls(cs) :
              \E j \in UserEntries(entries) :
                cs[c].args.user = FromPtr(entries[j].Login, "")

\* the listing of r3 starts with an entry without a type: the migration
\* stopped there with a panic and the user entry after it got no grant
C16_AbsentTypeStopsLoop ==
  \E k \in DOMAIN gw :
    /\ gw[k].op = "newRepo" /\ gw[k].arg.Name = "r3" /\ ver = 1
    /\ IsNil(RepoCollaborators("r3")[1].Type)
    /\ UserEntries(RepoCollaborators("r3")) = {2}
    /\ gw[k].res.crash
    /\ GrantCalls(gw[k].res.calls) = {}

\* the listing of r1 holds one user and one bot: exactly one grant was issued
C16_BotSkipped ==
  \E k \in DOMAIN gw :
    /\ gw[k].op = "newRepo" /\ gw[k].arg.Name = "r1" /\ ver = 1
    /\ ~gw[k].res.crash
    /\ Cardinality(GrantCalls(gw[k].res.calls)) = 1

\* C17: MigrateRepo checks its required parameters before any call.  When
\* the repository name, the owner or the clone address is empty it returns
\* an error, issues no call and leaves the destination as it was; when all
\* three are given it issues exactly one import call.
C17_RequiredParamsChecked ==
  \A k \in DOMAIN gw :
    gw[k].op = "migrate" =>
      LET a == gw[k].arg
          res == gw[k].res
      IN IF a.RepoName = "" \/ a.RepoOwner = "" \/ a.CloneAddr = ""
         THEN /\ ~IsNil(res.err) /\ IsNil(res.val)
              /\ res.calls = <<>>
              /\ res.gt = gw[k].before
         ELSE /\ Len(res.calls) = 1
              /\ res.calls[1].api = "gt.MigrateRepo"
              /\ res.calls[1].args.RepoName = a.RepoName
              /\ res.calls[1].args.RepoOwner = a.RepoOwner
              /\ res.calls[1].args.CloneAddr = a.CloneAddr

\* an import with a name and a clone address but no owner was refused
\* without a call
C17_EmptyOwnerRefused ==
  \E k \in DOMAIN gw :
    /\ gw[k].op = "migrate"
    /\ gw[k].arg.RepoName # "" /\ gw[k].arg.CloneAddr # ""
    /\ gw[k].arg.RepoOwner = ""
    /\ ~IsNil(gw[k].res.err)
    /\ gw[k].res.calls = <<>>

SourceOrgReads ==
  {"gh.ListOrgUsers", "gh.GetOrgMembership", "gh.ListTeams",
   "gh.ListTeamReposBySlug", "gh.ListTeamMembersBySlug", "gh.ListByOrg"}

\* C19: when the source and the target organization names differ, every
\* read of the source platform names the source organization, and every
\* destination write names the target organization: the team searches and
\* creations, the owner of every repository import and the organization of
\* every collaborator grant.
C19_RenameOnMigrate ==
  cfg.SourceOrg # cfg.TargetOrg =>
    \A k \in DOMAIN calls :
      /\ calls[k].api \in SourceOrgReads => calls[k].args.org = cfg.SourceOrg
      /\ calls[k].api = "gh.ListCollaborators" => calls[k].args.owner = cfg.SourceOrg
      /\ calls[k].api \in {"gt.SearchOrgTeams", "gt.CreateTeam"} =>
           calls[k].args.org = cfg.TargetOrg
      /\ calls[k].api = "gt.MigrateRepo" => calls[k].args.RepoOwner = cfg.TargetOrg
      /\ calls[k].api = "gt.AddCollaborator" => calls[k].args.org = cfg.TargetOrg

\* with differing names the target organization was created and a
\* repository import was then sent with the source organization as owner
C19_ImportOwnedBySource ==
  /\ cfg.SourceOrg # cfg.TargetOrg
  /\ cfg.TargetOrg \in DOMAIN gt.orgs
  /\ \E k \in DOMAIN calls :
       /\ calls[k].api = "gt.MigrateRepo"
       /\ calls[k].args.RepoOwner = cfg.SourceOrg

\* the value of an optional field, or the given default when it is absent
OrDefault(p, d) == IF p = <<>> THEN d ELSE p[1]

\* C20: every repository the loop has handled got an import request, and
\* every import request carries the description, the private flag and the
\* clone URL of the listed repository it names; an absent description is
\* sent as the empty string and an absent private flag as false.
C20_MetadataPreserved ==
  /\ \A j \in DOMAIN attempted :
       \E k \in DOMAIN calls :
         /\ calls[k].api = "gt.MigrateRepo"
         /\ calls[k].args.RepoName = OrDefault(ghRepos[j].Name, "")
  /\ \A k \in DOMAIN calls :
       calls[k].api = "gt.MigrateRepo" =>
         \E j \in DOMAIN ghRepos :
           /\ calls[k].args.RepoName = OrDefault(ghRepos[j].Name, "")
           /\ calls[k].args.Description = OrDefault(ghRepos[j].Description, "")
           /\ calls[k].args.Private = OrDefault(ghRepos[j].Private, FALSE)
           /\ calls[k].args.CloneAddr = OrDefault(ghRepos[j].CloneURL, "")

\* r1 (private, no description) and r2 (described, no visibility field)
\* were both imported, each with its own values
C20_BothReposImported ==
  /\ Len(attempted) = 2
  /\ ghRepos[1].Description = <<>> /\ ghRepos[2].Private = <<>>
  /\ \E k1, k2 \in DOMAIN calls :
       /\ calls[k1].api = "gt.MigrateRepo" /\ calls[k1].ok
       /\ calls[k1].args.RepoName = "r1"
       /\ calls[k1].args.Description = "" /\ calls[k1].args.Private
       /\ calls[k2].api = "gt.MigrateRepo" /\ calls[k2].ok
       /\ calls[k2].args.RepoName = "r2"
       /\ calls[k2].args.Description = "second" /\ ~calls[k2].args.Private
       /\ calls[k2].args.CloneAddr = "https://gh/acme/r2.git"

\* the items of the pages 1..n of a listing, in page order
RECURSIVE PagesConcat(_, _)
PagesConcat(pages, n) ==
  IF n = 0 THEN <<>> ELSE PagesConcat(pages, n - 1) \o pages[n]

\* C21: a list operation none of whose page requests fails requests the
\* pages 1, 2, ... of the listing in this order, each exactly once, stops
\* after the page that names no successor, and returns in one result the
\* items of all pages in page order.
C21_AllPagesInOrder ==
  \A k \in DOMAIN gw :
    (gw[k].op = "list" /\ gw[k].arg.failing = 0) =>
      LET pages == gw[k].arg.pages
          cs == gw[k].res.calls
      IN /\ Len(cs) = Len(pages)
         /\ \A c \in DOMAIN cs :
              cs[c].api = "gh.ListPage" /\ cs[c].args.page = c /\ cs[c].ok
         /\ gw[k].res.err = <<>>
         /\ gw[k].res.val = PagesConcat(pages, Len(pages))

\* a listing of three pages holding x, nothing and y was returned as <<x, y>>
\* after three page requests
C21_ThreePagesFetched ==
  \E k \in DOMAIN gw :
    /\ gw[k].op = "list" /\ gw[k].arg.failing = 0
    /\ gw[k].arg.pages = << <<"x">>, <<>>, <<"y">> >>
    /\ Len(gw[k].res.calls) = 3
    /\ gw[k].res.val = <<"x", "y">>

\* C22: when the request of a page fails, no later page is requested, the
\* error is returned and the result is empty, whatever the pages before
\* the failing one held.
C22_FailedPageAbortsListing ==
  \A k \in DOMAIN gw :
    (gw[k].op = "list" /\ gw[k].arg.failing > 0) =>
      LET cs == gw[k].res.calls
      IN /\ Len(cs) = gw[k].arg.failing
         /\ \A c \in DOMAIN cs : cs[c].args.page = c /\ (cs[c].ok <=> c < Len(cs))
         /\ gw[k].res.err # <<>>
         /\ gw[k].res.val = <<>>

\* the second page of a listing failed after a first page holding x: the
\* third page was not requested and nothing was returned
C22_SecondPageFailed ==
  \E k \in DOMAIN gw :
    /\ gw[k].op = "list" /\ gw[k].arg.failing = 2
    /\ Len(gw[k].arg.pages) = 3 /\ gw[k].arg.pages[1] = <<"x">>
    /\ Len(gw[k].res.calls) = 2
    /\ gw[k].res.err # <<>> /\ gw[k].res.val = <<>>

\* C23: the sequence a list operation returns holds no entity twice, also
\* when the source returns the same entity on two pages.
C23_ListingDeduplicated ==
  \A k \in DOMAIN gw :
    gw[k].op = "list" =>
      \A a, b \in DOMAIN gw[k].res.val :
        gw[k].res.val[a] = gw[k].res.val[b] => a = b

\* the entity x stood on the first and on the second page and was returned
\* twice
C23_EntityReturnedTwice ==
  \E k \in DOMAIN gw :
    /\ gw[k].op = "list" /\ gw[k].arg.failing = 0
    /\ gw[k].arg.pages = << <<"x">>, <<"x">> >>
    /\ gw[k].res.val = <<"x", "x">>

\* the duplicate-key outcome: a destination error with status 422 whose
\* message contains the phrase, with a small or a capital k
DuplicateOutcome(e) ==
  /\ e # <<>>
  /\ "Message" \in DOMAIN e[1]
  /\ e[1].Code = 422
  /\ \E j \in 1..Len(e[1].Message) :
       /\ j + 4 <= Len(e[1].Message)
       /\ e[1].Message[j] \in {"key", "Key"}
       /\ SubSeq(e[1].Message, j + 1, j + 4) = <<"content", "has", "been", "used">>

\* C24: in the key loop every key of the user is uploaded, whatever happened
\* to the keys before it.  The duplicate counter counts exactly the uploads
\* that ended with the duplicate-key outcome, the failure counter exactly the
\* uploads that ended with any other error, the success counter the rest.
C24_DuplicateKeysCounted ==
  \A k \in DOMAIN gw :
    gw[k].op = "keys" =>
      LET res == gw[k].res
          n == Len(gw[k].arg.sshKeys)
      IN /\ Len(res.errs) = n /\ Len(res.calls) = n
         /\ \A j \in 1..n : res.calls[j].args.key = gw[k].arg.sshKeys[j]
         /\ res.exists = Cardinality({j \in 1..n : DuplicateOutcome(res.errs[j])})
         /\ res.failed = Cardinality({j \in 1..n : /\ res.errs[j] # <<>>
                                                   /\ ~DuplicateOutcome(res.errs[j])})
         /\ res.success = Cardinality({j \in 1..n : res.errs[j] = <<>>})

\* the first key was refused as already used, the second was refused as
\* invalid under the same status: one duplicate and one failure were counted
C24_DuplicateThenFailure ==
  \E k \in DOMAIN gw :
    /\ gw[k].op = "keys"
    /\ DuplicateOutcome(gw[k].res.errs[1])
    /\ gw[k].res.errs[2] # <<>> /\ gw[k].res.errs[2][1].Code = 422
    /\ ~DuplicateOutcome(gw[k].res.errs[2])
    /\ gw[k].res.exists = 1 /\ gw[k].res.failed = 1 /\ gw[k].res.success = 0

\* the data rows of a file that have at least five columns, in row order
LongRows(rows) == Ascending({k \in DOMAIN rows : k > 1 /\ Len(rows[k]) >= 5})

\* C25: readUserList returns without error one entry per data row with at
\* least five columns, in row order, with login, email and role taken from
\* the third, fourth and fifth column; the header and the rows with fewer
\* columns are left out.
C25_ShortRowsSkipped ==
  \A k \in DOMAIN gw :
    gw[k].op = "roster" =>
      LET rows == gw[k].arg
          ks == LongRows(rows)
      IN /\ gw[k].res.err = <<>>
         /\ gw[k].res.val =
              [j \in DOMAIN ks |-> [Login |-> rows[ks[j]][3], Email |-> rows[ks[j]][4],
                                    Role |-> rows[ks[j]][5]]]

\* a header of five columns and three data rows of which the second has
\* four columns: the file was refused and no entry was returned
C25_ShortRowIsError ==
  \E k \in DOMAIN gw :
    /\ gw[k].op = "roster"
    /\ Len(gw[k].arg) = 4
    /\ \A j \in {1, 2, 4} : Len(gw[k].arg[j]) = 5
    /\ Len(gw[k].arg[3]) = 4
    /\ gw[k].res.err # <<>>
    /\ gw[k].res.val = <<>>

\* a file whose rows all have five columns was read: one entry per data row
C25_FullRowsParsed ==
  \E k \in DOMAIN gw :
    /\ gw[k].op = "roster"
    /\ Len(gw[k].arg) = 4
    /\ \A j \in 1..4 : Len(gw[k].arg[j]) = 5
    /\ gw[k].res.err = <<>>
    /\ Len(gw[k].res.val) = 3
    /\ gw[k].res.val[2].Login = gw[k].arg[3][3]

\* the source profile fetches of the call log, in call order
GetUserCalls == SelectSeq(calls, LAMBDA c : c.api = "gh.GetUser")

\* C26: a failure met while handling one roster entry (profile fetch, user
\* create-or-reuse, key listing, one key upload) ends at most the handling
\* of that entry or key.  During the roster phase the entries handled so
\* far are exactly the first u - 1 of the roster, each with its own profile
\* fetch, whatever failed before; every key of a user whose keys were listed
\* was counted; the phase is never left for the end of the run, and once it
\* is over the migration of the organization has started with its first
\* call.
C26_RosterFailuresIsolated ==
  /\ pc = "roster" =>
       /\ Len(GetUserCalls) = u - 1
       /\ \A j \in 1..(u - 1) : GetUserCalls[j].args.user = users[j].Login
  /\ (users # <<>> /\ pc \notin {"main", "roster"}) =>
       \A j \in DOMAIN users :
         \E k \in DOMAIN calls :
           calls[k].api = "gh.GetUser" /\ calls[k].args.user = users[j].Login
  /\ \A j \in DOMAIN keyStats :
       keyStats[j].total =
         keyStats[j].success + keyStats[j].exists + keyStats[j].failed
  /\ (users # <<>> /\ pc \notin {"main", "roster", "auth"}) =>
       \E k \in DOMAIN calls : calls[k].api = "gh.GetCurrentUser"

\* the profile fetch of the first roster entry failed, the second entry
\* got its user and its keys, and the migration went on to authenticate
C26_SecondEntryHandled ==
  /\ Len(users) = 2
  /\ Len(GetUserCalls) >= 2
  /\ ~GetUserCalls[1].ok /\ GetUserCalls[1].args.user = users[1].Login
  /\ GetUserCalls[2].ok /\ GetUserCalls[2].args.user = users[2].Login
  /\ \E j \in DOMAIN keyStats : keyStats[j].login = users[2].Login
  /\ \E k \in DOMAIN calls : calls[k].api = "gh.GetCurrentUser"

\* the timeout values of at most three characters that are durations: an
\* optional sign before 0, or before a number (with digits before or after
\* an optional point) followed by one of the units m, s, ms
ValidTimeouts ==
  LET nums == {<<"0">>, <<"1">>, <<".", "0">>, <<".", "1">>, <<"0", ".">>, <<"1", ".">>,
               <<"0", "0">>, <<"0", "1">>, <<"1", "0">>, <<"1", "1">>}
      pairs == {n \o un : n \in nums, un \in DurationUnits}
      plain == {<<"0">>} \cup {q \in pairs : Len(q) <= 3}
  IN plain \cup {<<"-">> \o q : q \in {q \in plain : Len(q) <= 2}}

\* C27: when the source token, the destination token, the source
\* organization name or the target organization name is empty, or the
\* timeout is no duration, main ends before createClients and without any
\* call; with all of them well-formed it goes on to create the clients.
C27_MalformedConfigEndsRun ==
  \A k \in DOMAIN gw :
    (gw[k].op = "main" /\ Len(gw[k].arg.APITimeout) <= 3) =>
      LET a == gw[k].arg
          malformed == \/ a.GHToken = "" \/ a.GTToken = ""
                       \/ a.SourceOrg = "" \/ a.TargetOrg = ""
                       \/ a.APITimeout \notin ValidTimeouts
      IN /\ gw[k].res.calls = <<>>
         /\ gw[k].res.gt = gw[k].before
         /\ malformed <=> gw[k].res.val # "createClients"

\* a configuration with everything given and the timeout "1" (no unit)
\* ended the run at the timeout check
C27_TimeoutWithoutUnit ==
  \E k \in DOMAIN gw :
    /\ gw[k].op = "main"
    /\ gw[k].arg.GHToken # "" /\ gw[k].arg.GTToken # ""
    /\ gw[k].arg.SourceOrg # "" /\ gw[k].arg.TargetOrg # ""
    /\ gw[k].arg.APITimeout = <<"1">>
    /\ gw[k].res.val = "failed to parse timeout"
    /\ calls = <<>>

\* how far the run has got: its phase, and inside a phase the positions of
\* its loops
PhaseRank ==
  CASE pc = "main" -> 0 [] pc = "roster" -> 1 [] pc = "auth" -> 2
    [] pc = "getOrg" -> 3 [] pc = "createOrg" -> 4 [] pc = "owners" -> 5
    [] pc = "listMembers" -> 6 [] pc = "member" -> 7 [] pc = "listTeams" -> 8
    [] pc = "team" -> 9 [] pc = "listRepos" -> 10 [] pc = "repo" -> 11
    [] pc \in {"done", "crashed"} -> 12
LoopRank == u + i + t + r

C29_CollaboratorsAfterImport ==
  \A k \in DOMAIN calls :
    /\ calls[k].api = "gh.ListCollaborators" =>
         \E j \in 1..(k - 1) :
           /\ calls[j].api = "gt.MigrateRepo" /\ calls[j].ok
           /\ calls[j].args.RepoOwner = calls[k].args.owner
           /\ calls[j].args.RepoName = calls[k].args.repo
    /\ calls[k].api = "gt.AddCollaborator" =>
         \E j \in 1..(k - 1) :
           /\ calls[j].api = "gt.MigrateRepo" /\ calls[j].ok
           /\ calls[j].args.RepoOwner = calls[k].args.org
           /\ calls[j].args.RepoName = calls[k].args.repo
    /\ (calls[k].api = "gt.MigrateRepo" /\ ~calls[k].ok) =>
         \A j \in DOMAIN calls :
           calls[j].api \in {"gh.ListCollaborators", "gt.AddCollaborator"} =>
             calls[j].args.repo # calls[k].args.RepoName

\* the import of r1 failed and got no listing; the import of r2 succeeded
\* and its collaborator was granted access to r2
C29_FailedImportNoGrant ==
  \E a, b, c \in DOMAIN calls :
    /\ calls[a].api = "gt.MigrateRepo" /\ ~calls[a].ok
    /\ calls[a].args.RepoName = "r1"
    /\ calls[b].api = "gt.MigrateRepo" /\ calls[b].ok
    /\ calls[b].args.RepoName = "r2"
    /\ b < c
    /\ calls[c].api = "gt.AddCollaborator" /\ calls[c].args.repo = "r2"

\* the calls before call k that look the login up at the destination: the
\* first call of CreateOrGetUser
ProvisionedBefore(k, login) ==
  \E j \in 1..(k - 1) :
    calls[j].api = "gt.GetUserInfo" /\ calls[j].args.user = login

\* C30: every login of an add-team-member call or of an add-collaborator
\* call had a destination user create-or-reuse invoked for it earlier in the
\* same run, also when the login is met first as a team member or as a
\* repository collaborator.
C30_UsersProvisionedFirst ==
  \A k \in DOMAIN calls :
    calls[k].api \in {"gt.AddTeamMember", "gt.AddCollaborator"} =>
      ProvisionedBefore(k, calls[k].args.user)

\* erin, met first as a collaborator of r2, is granted access with no
\* create-or-reuse for her anywhere in the run, and the grant fails
C30_AddedWithoutProvisioning ==
  \E k \in DOMAIN calls :
    /\ calls[k].api = "gt.AddCollaborator" /\ ~calls[k].ok
    /\ calls[k].args.user = "erin" /\ calls[k].args.repo = "r2"
    /\ \A j \in DOMAIN calls :
         calls[j].api = "gt.GetUserInfo" => calls[j].args.user # "erin"

\* the permissions the collaborator listing of the repository reports for
\* the user
ListedPermissions(repo, user) ==
  LET entries == RepoCollaborators(repo)
      k == CHOOSE k \in DOMAIN entries : FromPtr(entries[k].Login, "") = user
  IN entries[k].Permissions

\* C31: the level of every collaborator grant is the mapping of the
\* permissions the collaborator listing of that repository reports for that
\* user, not of any other record of the user.
C31_GrantFromListedPermissions ==
  \A k \in DOMAIN calls :
    calls[k].api = "gt.AddCollaborator" =>
      calls[k].args.access =
        CollaboratorAccess(ListedPermissions(calls[k].args.repo, calls[k].args.user))

\* alice, listed on r1 with the admin and push flags, is granted read
C31_AdminGrantedRead ==
  \E k \in DOMAIN calls :
    /\ calls[k].api = "gt.AddCollaborator" /\ calls[k].ok
    /\ calls[k].args.repo = "r1" /\ calls[k].args.user = "alice"
    /\ ListedPermissions("r1", "alice")[GitHubTeamAdmin]
    /\ calls[k].args.access = AccessModeRead

\* the pairs of listed source teams with different names and one sanitized name
Colliding ==
  {p \in (DOMAIN ghTeams) \X (DOMAIN ghTeams) :
     /\ p[1] < p[2]
     /\ FromPtr(ghTeams[p[1]].Name, <<>>) # FromPtr(ghTeams[p[2]].Name, <<>>)
     /\ Sanitize(FromPtr(ghTeams[p[1]].Name, <<>>)) = Sanitize(FromPtr(ghTeams[p[2]].Name, <<>>))}

\* the member listing the addition call k belongs to: the last one before it
ListingOf(k) ==
  LET js == {j \in 1..(k - 1) : calls[j].api = "gh.ListTeamMembersBySlug"}
  IN CHOOSE j \in js : \A j2 \in js : j2 <= j

\* the addition calls of the team loop for the source team with the slug
TeamAdditions(slug) ==
  {k \in DOMAIN calls :
     /\ calls[k].api = "gt.AddTeamMember"
     /\ \E j \in 1..(k - 1) : calls[j].api = "gh.ListTeamMembersBySlug"
     /\ calls[ListingOf(k)].args.slug = slug
     /\ \A j \in (ListingOf(k) + 1)..k : calls[j].api = "gt.AddTeamMember"}

\* C32: when two differently named source teams sanitize to one name, at
\* most one destination team of that name is created in the run and no
\* creation is attempted after a successful one (the second team reuses the
\* first), and every member addition made for either source team goes to
\* the one destination team of that name.
C32_CollidingTeamsMerged ==
  \A p \in Colliding :
    LET name == Sanitize(FromPtr(ghTeams[p[1]].Name, <<>>))
        created == {k \in DOMAIN calls :
                      calls[k].api = "gt.CreateTeam" /\ calls[k].args.opt.Name = name}
    IN /\ \A j, k \in created : j < k => ~calls[j].ok
       /\ Cardinality({k \in created : calls[k].ok}) <= 1
       /\ \A q \in {p[1], p[2]} :
            \A k \in TeamAdditions(FromPtr(ghTeams[q].Slug, "")) :
              /\ calls[k].args.id \in DOMAIN gt.teams
              /\ gt.teams[calls[k].args.id].name = name
              /\ gt.teams[calls[k].args.id].org = cfg.TargetOrg

\* the team a_ was created for the source team a/, and a member of a/ and
\* a member of a! were both added to it
C32_BothTeamsInOne ==
  \E c, k1, k2 \in DOMAIN calls :
    /\ Colliding # {}
    /\ calls[c].api = "gt.CreateTeam" /\ calls[c].ok
    /\ calls[c].args.opt.Name = <<"a", "_">>
    /\ k1 \in TeamAdditions("a-1") /\ calls[k1].ok
    /\ k2 \in TeamAdditions("a-2") /\ calls[k2].ok
    /\ calls[k1].args.id = calls[k2].args.id

\* the places in the log of the calls a step appended
NewCallIds == {k \in DOMAIN calls' : k > Len(calls)}

\* the teams listed under a repository name, none when the name is no key
TeamsOf(rt, nm) == IF nm \in DOMAIN rt THEN rt[nm] ELSE <<>>

\* C33: in the later version of CreateNewOrg every step of the team loop
\* appends the destination team under a repository name if and only if the
\* source team lists that repository, its repository listing succeeded and
\* its destination team create-or-reuse succeeded (the search succeeded and
\* a creation, if one was needed, succeeded too); otherwise the map is left
\* as it was.  The map is empty before the first team.
C33_RepoTeamsCollected ==
  [][ (pc = "team" /\ t' = t + 1 /\ ver = 2) =>
        LET slug == FromPtr(ghTeams[t].Slug, "")
            listOk == \E k \in NewCallIds :
                        /\ calls'[k].api = "gh.ListTeamReposBySlug"
                        /\ calls'[k].args.slug = slug /\ calls'[k].ok
            createOk == /\ \E k \in NewCallIds :
                             calls'[k].api = "gt.SearchOrgTeams" /\ calls'[k].ok
                        /\ \A k \in NewCallIds :
                             calls'[k].api = "gt.CreateTeam" => calls'[k].ok
            names == {TeamRepos(slug)[k] : k \in DOMAIN TeamRepos(slug)}
        IN /\ t = 1 => repoTeams = EmptyFn
           /\ \A nm \in DOMAIN repoTeams \cup DOMAIN repoTeams' \cup names :
                IF listOk /\ createOk /\ nm \in names
                THEN /\ Len(TeamsOf(repoTeams', nm)) = Len(TeamsOf(repoTeams, nm)) + 1
                     /\ SubSeq(repoTeams'[nm], 1, Len(TeamsOf(repoTeams, nm)))
                          = TeamsOf(repoTeams, nm)
                     /\ LET team == repoTeams'[nm][Len(repoTeams'[nm])]
                        IN /\ team.Name = Sanitize(FromPtr(ghTeams[t].Name, <<>>))
                           /\ team.Org = cfg.TargetOrg
                           /\ team = TeamValue(gt', team.ID)
                ELSE /\ (nm \in DOMAIN repoTeams') = (nm \in DOMAIN repoTeams)
                     /\ TeamsOf(repoTeams', nm) = TeamsOf(repoTeams, nm) ]_vars

\* the repository listing of the team a-1 failed and the team a-2 was
\* stored under both of its repositories: r1 has one team, not two
C33_FailedListingNoAssociation ==
  /\ ver = 2 /\ t = 3
  /\ \E k \in DOMAIN calls :
       /\ calls[k].api = "gh.ListTeamReposBySlug" /\ ~calls[k].ok
       /\ calls[k].args.slug = "a-1"
  /\ DOMAIN repoTeams = {"r1", "r2"}
  /\ Len(repoTeams["r1"]) = 1 /\ Len(repoTeams["r2"]) = 1

\* the loop a phase runs, as its position and the length of its listing
LoopAt(p) ==
  CASE p = "roster" -> [at |-> u, len |-> Len(users), next |-> u']
    [] p = "member" -> [at |-> i, len |-> Len(ghUsers), next |-> i']
    [] p = "team" -> [at |-> t, len |-> Len(ghTeams), next |-> t']
    [] p = "repo" -> [at |-> r, len |-> Len(ghRepos), next |-> r']
    [] OTHER -> [at |-> 1, len |-> 0, next |-> 1]

\* how many of the calls a step appended are calls of the api
NewCallsOf(api) == Cardinality({k \in DOMAIN calls' : k > Len(calls) /\ calls'[k].api = api})

\* the page request ends the loop of paginatedFetch: it failed, came back
\* without a response, or names no next page
StopsAt(src, page) ==
  LET f == Fetch(src, page)
  IN ~IsNil(f.err) \/ IsNil(f.resp) \/ Deref(f.resp).NextPage = 0

C35_UserOrError ==
  \A k \in DOMAIN gw :
    gw[k].op = "user" =>
      \/ gw[k].val # Nil /\ gw[k].err = Nil
      \/ gw[k].val = Nil /\ gw[k].err # Nil

\* the lookup failed without a response (a transport error): the only call
\* is the lookup, and neither a user nor an error came back
C35_NoUserNoError ==
  \E k \in DOMAIN gw :
    /\ gw[k].op = "user" /\ gw[k].f1 = "noresp"
    /\ Len(gw[k].calls) = 1
    /\ gw[k].calls[1].api = "gt.GetUserInfo" /\ ~gw[k].calls[1].ok
    /\ gw[k].val = Nil /\ gw[k].err = Nil

\* C36: no combination of remote results makes the orchestrator panic:
\* CreateNewOrg and MigrateNewRepo always end by returning.
C36_NeverCrashes == pc # "crashed"

\* r1 was imported, the profile fetch of its collaborator failed and the
\* run died in the log statement that reads the login of the absent profile
C36_DiedInCollaboratorLoop ==
  /\ pc = "crashed" /\ ver = 1
  /\ ghRepos # <<>> /\ r = 2
  /\ \E k \in DOMAIN calls :
       calls[k].api = "gt.MigrateRepo" /\ calls[k].ok /\ calls[k].args.RepoName = "r1"
  /\ calls[Len(calls)].api = "gh.GetUser" /\ ~calls[Len(calls)].ok

\* C37: MigrateNewRepo returns an error only for a repository that was not
\* imported: when its import call succeeded it returns nil, whatever the
\* collaborator listing and the collaborator steps did.
C37_ErrorOnlyWithoutImport ==
  \A k \in DOMAIN gw :
    gw[k].op = "newRepo" =>
      LET cs == gw[k].res.calls
          imported == \E c \in DOMAIN cs : cs[c].api = "gt.MigrateRepo" /\ cs[c].ok
      IN /\ ~IsNil(gw[k].res.err) => ~imported
         /\ (imported /\ ~gw[k].res.crash) => IsNil(gw[k].res.err)

\* r1 was imported, the listing of its collaborators failed, and
\* MigrateNewRepo returned the listing's error
C37_ImportedButReportedFailed ==
  \E k \in DOMAIN gw :
    /\ gw[k].op = "newRepo" /\ gw[k].arg.Name = "r1" /\ ver = 1
    /\ Len(gw[k].res.calls) = 2
    /\ gw[k].res.calls[1].api = "gt.MigrateRepo" /\ gw[k].res.calls[1].ok
    /\ gw[k].res.calls[2].api = "gh.ListCollaborators" /\ ~gw[k].res.calls[2].ok
    /\ <<gw[k].arg.Owner, "r1">> \in DOMAIN gt.repos
    /\ ~IsNil(gw[k].res.err)

\* C38: in the later version of CreateNewOrg a step of the member loop
\* issues an add-member call on the owners team for the member if and only
\* if the member's destination account was created or reused successfully
\* and the member's role in the source organization is admin; exactly then
\* the account is appended to Admins, once, whether or not the call succeeded.
C38_OwnersAreSourceAdmins ==
  [][ (pc = "member" /\ i <= Len(ghUsers) /\ ver = 2) =>
        LET login == FromPtr(ghUsers[i].Login, "")
            new == {k \in DOMAIN calls' : k > Len(calls)}
            provisioned ==
              \/ \E k \in new : /\ calls'[k].api = "gt.GetUserInfo" /\ calls'[k].ok
                                /\ calls'[k].args.user = login
              \/ \E k \in new : /\ calls'[k].api = "gt.AdminCreateUser" /\ calls'[k].ok
                                /\ calls'[k].args.Username = login
            promoted == provisioned /\ OrgRole(login) = "admin"
            adds == {k \in new : calls'[k].api = "gt.AddTeamMember"}
        IN /\ \A k \in adds : /\ calls'[k].args.id = Deref(ownerTeam).ID
                              /\ calls'[k].args.user = login
           /\ Cardinality(adds) = IF promoted THEN 1 ELSE 0
           /\ IF promoted
              THEN /\ Len(admins') = Len(admins) + 1
                   /\ SubSeq(admins', 1, Len(admins)) = admins
                   /\ admins'[Len(admins')].UserName = login
              ELSE admins' = admins ]_vars

\* bob, a plain member of the source organization whose destination account
\* was reused, was added to the owners team and stands in Admins
C38_MemberPromoted ==
  /\ ver = 2
  /\ OrgRole("bob") = "member"
  /\ \E k \in DOMAIN calls :
       /\ calls[k].api = "gt.AddTeamMember" /\ calls[k].ok
       /\ calls[k].args.id = Deref(ownerTeam).ID /\ calls[k].args.user = "bob"
  /\ \E a \in DOMAIN admins : admins[a].UserName = "bob"
  /\ <<Deref(ownerTeam).ID, "bob">> \in gt.members

\* the places in the log of the key uploads for the login
KeyUploads(login) ==
  {k \in DOMAIN calls :
     calls[k].api = "gt.CreateUserPublicKey" /\ calls[k].args.user = login}

\* C39: for every roster user whose key listing succeeded, each listed key
\* was uploaded exactly once and counted in exactly one counter: success,
\* exists and failed add up to the number of listed keys, success is the
\* number of that user's uploads that succeeded, and nothing of another
\* user's counts is carried over.
C39_KeyCountersAddUp ==
  \A s \in DOMAIN keyStats :
    LET st == keyStats[s]
        keys == UserKeys(st.login)
        ups == KeyUploads(st.login)
    IN /\ st.total = Len(keys)
       /\ st.success + st.exists + st.failed = st.total
       /\ st.success >= 0 /\ st.exists >= 0 /\ st.failed >= 0
       /\ \A n \in DOMAIN keys :
            Cardinality({k \in ups : calls[k].args.key = keys[n]}) = 1
       /\ Cardinality(ups) = Len(keys)
       /\ st.success = Cardinality({k \in ups : calls[k].ok})
       /\ st.exists + st.failed = Cardinality({k \in ups : ~calls[k].ok})

\* alice had one key that existed and one that was uploaded, and after her
\* dave's only key failed: his summary counts that one key alone
C39_CountersPerUser ==
  /\ Len(keyStats) = 2
  /\ keyStats[1].login = "alice" /\ keyStats[1].total = 2
  /\ keyStats[1].exists = 1 /\ keyStats[1].success = 1 /\ keyStats[1].failed = 0
  /\ keyStats[2].login = "dave" /\ keyStats[2].total = 1
  /\ keyStats[2].exists = 0 /\ keyStats[2].success = 0 /\ keyStats[2].failed = 1

=============================================================================
